---- MODULE Spec2Model ----
(***************************************************************************)
(* Black-hole renderer: the Python geodesic Engine (python/main.py,        *)
(* python/renderer.py, python/scene.py) with its orbit Camera and frame    *)
(* loop, and the GPU resource managers of the particle path                *)
(* (gpu_rendering/buffer_manager.py, gpu_rendering/shader_manager.py,      *)
(* gpu_rendering/compute_renderer.py), the CPU geodesic integrator         *)
(* (python/cpu_geodesic.py), the curvature grid and the objects block.     *)
(*                                                                         *)
(* Angles are fixed-point in units of 0.01 rad (one pixel of orbitSpeed),  *)
(* lengths in units of 1e5 m.  The sets glShaders, glPrograms, ... hold    *)
(* the GL handles that were generated and for which no glDelete* call has  *)
(* been issued.                                                            *)
(***************************************************************************)
EXTENDS Integers, Sequences, FiniteSets, TLC

VARIABLES
    pc,          \* position of the main thread in main()/Engine.__init__
    err,         \* the exception that propagated out of the constructor
    glfwInit,    \* glfw.init() succeeded and glfw.terminate() not yet called
    window,      \* the GLFW window (and its GL context) is alive
    closeFlag,   \* glfw.window_should_close
    engine,      \* the Engine's handle fields
    camera,      \* the Camera's fields
    cursor,      \* the real cursor position, glfw.get_cursor_pos
    texSize,     \* <<width, height>> of the compute texture's level 0
    groups,      \* arguments of the latest glDispatchCompute
    uboMoving,   \* the moving slot of the latest camera uniform upload
    cmds,        \* GL commands issued so far in the current frame
    glShaders, glPrograms, glLinked, glBuffers, glVaos, glTextures, glNext,
    heldAtUpdate, \* (dragging or panning) when Camera.update last ran
    sawDelta,    \* a drag or scroll delta occurred since the previous frame
    bm_buffers,  \* BufferManager._buffers: name -> buffer id
    bm_sizes,    \* BufferManager._buffer_sizes: name -> capacity in particles
    bm_vaos,     \* BufferManager._vaos: name -> VAO id
    sm_programs, \* ShaderManager._programs: name -> program id
    sm_current,  \* ShaderManager._current_program (None is -1)
    sm_used,     \* argument of the latest glUseProgram the ShaderManager issued
    op,          \* the latest manager call: its name, arguments, pre-state
    opErr,       \* the exception the latest manager call raised, or "none"
    opCalls,     \* the GL calls the latest manager call issued
    opLeft,      \* handles the latest call created, left alive and unregistered
    rayIn,       \* cpu_geodesic: the arguments of Ray(pos, dir, rs) and the driver
    rayPc,       \* cpu_geodesic: position of the driver of the Ray
    ray,         \* the Ray's fields
    rayErr,      \* the exception that propagated out of Ray.__init__ or Ray.step
    rayCalls,    \* number of calls of Ray.step made so far
    objects,     \* the scene objects handed to generate_grid / upload_objects
    gridVerts,   \* the vertex array generate_grid uploaded (x, y, z per vertex)
    gridIndices, \* the index array generate_grid uploaded
    objBlob,     \* the bytes upload_objects wrote to the objects block
    Gravity,     \* python/main.py: the module global Gravity
    keys,        \* the key events delivered to Engine._key_cb so far
    cr,          \* the ComputeRenderer's fields
    glSyncs,     \* the GL sync objects created and not deleted
    crOp,        \* the latest ComputeRenderer call: its name, inputs, outcome
    particles,   \* physics: the Particle objects created so far
    recorded,    \* per Particle, the positions it put on its trail, and how many
                 \* of them were there at its latest clear_trail
    integrator,  \* the PhysicsIntegrator's fields
    physOp,      \* the latest physics call: its name, inputs, pre-state
    ih,          \* the InputHandler's fields
    ihCursor,    \* glfw.get_cursor_pos of the InputHandler's window
    ihOp         \* the latest InputHandler call: its name, inputs, outcome

glVars == <<glShaders, glPrograms, glLinked, glBuffers, glVaos, glTextures, glNext>>
ghostVars == <<heldAtUpdate, sawDelta>>
frameVars == <<texSize, groups, uboMoving, cmds>>
engineVars == <<pc, err, glfwInit, window, closeFlag, engine, camera, cursor,
                frameVars>>
bmVars == <<bm_buffers, bm_sizes, bm_vaos>>
smVars == <<sm_programs, sm_current, sm_used>>
opVars == <<op, opErr, opCalls, opLeft>>
mgrVars == <<bmVars, smVars, opVars>>
rayVars == <<rayIn, rayPc, ray, rayErr, rayCalls>>
sceneVars == <<objects, gridVerts, gridIndices, objBlob>>
keyVars == <<Gravity, keys>>
crVars == <<cr, glSyncs, crOp>>
physVars == <<particles, recorded, integrator, physOp>>
inVars == <<ih, ihCursor, ihOp>>
hostVars == <<physVars, inVars>>
cpuVars == <<rayVars, sceneVars, keyVars, crVars, hostVars>>
vars == <<engineVars, glVars, ghostVars, mgrVars, cpuVars>>

----------------------------------------------------------------------------
(* Program constants *)

COMPUTE_STATIC_W == 200
COMPUTE_STATIC_H == 150
COMPUTE_DYNAMIC_W == 100
COMPUTE_DYNAMIC_H == 75
LocalSize == 16

HalfPi == 157        \* math.pi / 2.0
Pi == 314            \* math.pi
ElevEps == 1         \* 0.01
OrbitSpeed == 1      \* 0.01 rad per pixel
InitRadius == 634194 \* 6.34194e10
MinRadius == 100000  \* 1e10
MaxRadius == 10000000 \* 1e12
ZoomSpeed == 250000  \* 25e9

MOUSE_BUTTON_LEFT == 0
MOUSE_BUTTON_RIGHT == 1
MOUSE_BUTTON_MIDDLE == 2
RELEASE == 0
PRESS == 1

(* Bounds of the model *)

CursorRight == 1
CursorFar == 200
ScrollMax == 20
MaxAzimuth == 1

MaxParticles == 4
MaxHandles == 2
MaxShaderHandles == 5

CursorXs == {0, CursorRight}
CursorYs == {0, CursorFar}
ScrollOffsets == {0 - ScrollMax, 0, ScrollMax}
Buttons == {MOUSE_BUTTON_LEFT, MOUSE_BUTTON_RIGHT, MOUSE_BUTTON_MIDDLE}

----------------------------------------------------------------------------
(* Helpers *)

Max(a, b) == IF a >= b THEN a ELSE b
Min(a, b) == IF a <= b THEN a ELSE b

\* int(math.ceil(n / 16.0))
CeilDiv(n, d) == (n + d - 1) \div d

\* dict[k] = v and del dict[k]
Put(f, k, v) == [x \in DOMAIN f \cup {k} |-> IF x = k THEN v ELSE f[x]]
Del(f, k) == [x \in DOMAIN f \ {k} |-> f[x]]
Values(f) == {f[x] : x \in DOMAIN f}

\* the names given to buffers, VAOs and programs; NoName is Python's None
Names == {"a", "b"}
NoName == "None"

\* a manager call: the method, its name argument, its count argument and the
\* capacity recorded for the name before the call
OpRec(o, k, n, c) == [name |-> o, key |-> k, n |-> n, cap |-> c]

NoErr == [kind |-> "none", log |-> ""]

----------------------------------------------------------------------------
(* Camera (python/main.py) *)

CameraInit ==
    [target |-> <<0, 0, 0>>, radius |-> InitRadius, azimuth |-> 0,
     elevation |-> HalfPi, dragging |-> FALSE, panning |-> FALSE,
     moving |-> FALSE, lastX |-> 0, lastY |-> 0]

\* Camera.update with the flags combined by "and"
update_and(cam) ==
    [cam EXCEPT !.target = <<0, 0, 0>>,
                !.moving = (cam.dragging /\ cam.panning)]

\* Camera.update
update(cam) ==
    [cam EXCEPT !.target = <<0, 0, 0>>,
                !.moving = (cam.dragging \/ cam.panning)]

\* a clamp that lets the elevation reach the poles
ClampElevation_poles(e) == Max(0, Min(Pi, e))

\* the clamp of process_mouse_move
ClampElevation(e) == Max(ElevEps, Min(Pi - ElevEps, e))

\* the clamp of process_scroll
ClampRadius(r) == Max(MinRadius, Min(MaxRadius, r))

\* Camera.process_mouse_move
process_mouse_move(cam, x, y) ==
    LET dx == x - cam.lastX
        dy == y - cam.lastY
        orbit == IF cam.dragging /\ ~cam.panning
                 THEN [cam EXCEPT !.azimuth = cam.azimuth + dx * OrbitSpeed,
                                  !.elevation = ClampElevation(cam.elevation - dy * OrbitSpeed)]
                 ELSE cam
    IN update([orbit EXCEPT !.lastX = x, !.lastY = y])

\* Camera.process_mouse_button (the Gravity global of the right button is
\* not part of the camera)
process_mouse_button(cam, pos, button, action) ==
    IF button \in {MOUSE_BUTTON_LEFT, MOUSE_BUTTON_MIDDLE}
    THEN IF action = PRESS
         THEN [cam EXCEPT !.dragging = TRUE, !.panning = FALSE,
                          !.lastX = pos[1], !.lastY = pos[2]]
         ELSE IF action = RELEASE
         THEN [cam EXCEPT !.dragging = FALSE, !.panning = FALSE]
         ELSE cam
    ELSE cam

\* Camera.process_scroll
process_scroll(cam, yoff) ==
    update([cam EXCEPT !.radius = ClampRadius(cam.radius - yoff * ZoomSpeed)])

----------------------------------------------------------------------------
(* Engine.__init__ (python/main.py, python/renderer.py) *)

EngineInit ==
    [quad_vao |-> 0, texture |-> 0, present_prog |-> 0, grid_prog |-> 0,
     compute_prog |-> 0, camera_ubo |-> 0, disk_ubo |-> 0, objects_ubo |-> 0,
     grid_vao |-> 0, grid_vbo |-> 0, grid_ebo |-> 0]

CompileErr == [kind |-> "RuntimeError", log |-> "Shader compile error: shader info log"]
LinkErr == [kind |-> "RuntimeError", log |-> "program info log"]
FileErr == [kind |-> "FileNotFoundError", log |-> ""]

\* Outcome of building a vertex+fragment program with handles next, next+1,
\* next+2: _compile of each stage, glCreateProgram, glLinkProgram, the link
\* check when the method has one, glDeleteShader of both stages.
\* prog = 0 stands for "raised".
BuildVF(next, vOk, fOk, linkOk, checksLink) ==
    LET v == next
        f == next + 1
        p == next + 2
    IN  IF ~vOk
        THEN [shaders |-> {v}, programs |-> {}, linked |-> {}, prog |-> 0,
              used |-> 1, err |-> CompileErr]
        ELSE IF ~fOk
        THEN [shaders |-> {v, f}, programs |-> {}, linked |-> {}, prog |-> 0,
              used |-> 2, err |-> CompileErr]
        ELSE IF checksLink /\ ~linkOk
        THEN [shaders |-> {v, f}, programs |-> {p}, linked |-> {}, prog |-> 0,
              used |-> 3, err |-> LinkErr]
        ELSE [shaders |-> {}, programs |-> {p},
              linked |-> IF linkOk THEN {p} ELSE {}, prog |-> p,
              used |-> 3, err |-> NoErr]

\* Engine._create_present_program: no GL_LINK_STATUS query after glLinkProgram
create_present_program(next, vOk, fOk, linkOk) ==
    BuildVF(next, vOk, fOk, linkOk, FALSE)

\* Engine._create_program_from_files, the files having been read
create_program_from_files(next, vOk, fOk, linkOk) ==
    BuildVF(next, vOk, fOk, linkOk, TRUE)

\* Engine._create_compute_program, the file having been read
create_compute_program(next, csOk, linkOk) ==
    LET cs == next
        p == next + 1
    IN  IF ~csOk
        THEN [shaders |-> {cs}, programs |-> {}, linked |-> {}, prog |-> 0,
              used |-> 1, err |-> CompileErr]
        ELSE IF ~linkOk
        THEN [shaders |-> {cs}, programs |-> {p}, linked |-> {}, prog |-> 0,
              used |-> 2, err |-> LinkErr]
        ELSE [shaders |-> {}, programs |-> {p}, linked |-> {p}, prog |-> p,
              used |-> 2, err |-> NoErr]

\* The GL state after a program build with outcome b
ApplyBuild(b) ==
    /\ glShaders' = glShaders \cup b.shaders
    /\ glPrograms' = glPrograms \cup b.programs
    /\ glLinked' = glLinked \cup b.linked
    /\ glNext' = glNext + b.used
    /\ UNCHANGED <<glBuffers, glVaos, glTextures>>

\* glfw.init, the window hints, glfw.create_window, the callbacks
CtorWindow ==
    /\ pc = "init"
    /\ \E initOk, winOk \in BOOLEAN :
         IF ~initOk
         THEN /\ pc' = "raised"
              /\ err' = [kind |-> "RuntimeError", log |-> "GLFW init failed"]
              /\ UNCHANGED <<glfwInit, window>>
         ELSE IF ~winOk
         THEN \* glfw.terminate() before the raise
              /\ pc' = "raised"
              /\ err' = [kind |-> "RuntimeError", log |-> "Failed to create window"]
              /\ glfwInit' = FALSE
              /\ UNCHANGED window
         ELSE /\ pc' = "ctor_quad"
              /\ glfwInit' = TRUE
              /\ window' = TRUE
              /\ UNCHANGED err
    /\ UNCHANGED <<closeFlag, engine, camera, cursor, frameVars>>
    /\ UNCHANGED <<glVars, ghostVars>>
    /\ UNCHANGED <<mgrVars, cpuVars>>

\* Engine._create_quad
CtorQuad ==
    /\ pc = "ctor_quad"
    /\ LET vao == glNext
           vbo == glNext + 1
           tex == glNext + 2
       IN  /\ glVaos' = glVaos \cup {vao}
           /\ glBuffers' = glBuffers \cup {vbo}
           /\ glTextures' = glTextures \cup {tex}
           /\ glNext' = glNext + 3
           /\ engine' = [engine EXCEPT !.quad_vao = vao, !.texture = tex]
    /\ texSize' = <<COMPUTE_STATIC_W, COMPUTE_STATIC_H>>
    /\ pc' = "ctor_present"
    /\ UNCHANGED <<err, glfwInit, window, closeFlag, camera, cursor, groups, uboMoving, cmds>>
    /\ UNCHANGED <<glShaders, glPrograms, glLinked, ghostVars>>
    /\ UNCHANGED <<mgrVars, cpuVars>>

CtorPresent ==
    /\ pc = "ctor_present"
    /\ \E vOk, fOk, linkOk \in BOOLEAN :
         LET b == create_present_program(glNext, vOk, fOk, linkOk)
         IN  /\ ApplyBuild(b)
             /\ IF b.prog = 0
                THEN pc' = "raised" /\ err' = b.err /\ UNCHANGED engine
                ELSE /\ pc' = "ctor_grid"
                     /\ engine' = [engine EXCEPT !.present_prog = b.prog]
                     /\ UNCHANGED err
    /\ UNCHANGED <<glfwInit, window, closeFlag, camera, cursor, frameVars>>
    /\ UNCHANGED ghostVars
    /\ UNCHANGED <<mgrVars, cpuVars>>

CtorGrid ==
    /\ pc = "ctor_grid"
    /\ \E filesExist, vOk, fOk, linkOk \in BOOLEAN :
         IF ~filesExist
         THEN \* open() in _read_shader_text raises
              /\ pc' = "raised"
              /\ err' = FileErr
              /\ UNCHANGED <<engine, glVars>>
         ELSE LET b == create_program_from_files(glNext, vOk, fOk, linkOk)
              IN  /\ ApplyBuild(b)
                  /\ IF b.prog = 0
                     THEN pc' = "raised" /\ err' = b.err /\ UNCHANGED engine
                     ELSE /\ pc' = "ctor_compute"
                          /\ engine' = [engine EXCEPT !.grid_prog = b.prog]
                          /\ UNCHANGED err
    /\ UNCHANGED <<glfwInit, window, closeFlag, camera, cursor, frameVars>>
    /\ UNCHANGED ghostVars
    /\ UNCHANGED <<mgrVars, cpuVars>>

CtorCompute ==
    /\ pc = "ctor_compute"
    /\ \E fileExists, csOk, linkOk \in BOOLEAN :
         IF ~fileExists
         THEN /\ pc' = "raised"
              /\ err' = FileErr
              /\ UNCHANGED <<engine, glVars>>
         ELSE LET b == create_compute_program(glNext, csOk, linkOk)
              IN  /\ ApplyBuild(b)
                  /\ IF b.prog = 0
                     THEN pc' = "raised" /\ err' = b.err /\ UNCHANGED engine
                     ELSE /\ pc' = "ctor_ubos"
                          /\ engine' = [engine EXCEPT !.compute_prog = b.prog]
                          /\ UNCHANGED err
    /\ UNCHANGED <<glfwInit, window, closeFlag, camera, cursor, frameVars>>
    /\ UNCHANGED ghostVars
    /\ UNCHANGED <<mgrVars, cpuVars>>

\* the three uniform buffers and the grid fields; main() then enters the loop
CtorUbos ==
    /\ pc = "ctor_ubos"
    /\ glBuffers' = glBuffers \cup {glNext, glNext + 1, glNext + 2}
    /\ glNext' = glNext + 3
    /\ engine' = [engine EXCEPT !.camera_ubo = glNext, !.disk_ubo = glNext + 1,
                                !.objects_ubo = glNext + 2,
                                !.grid_vao = 0, !.grid_vbo = 0, !.grid_ebo = 0]
    /\ pc' = "loop"
    /\ UNCHANGED <<err, glfwInit, window, closeFlag, camera, cursor, frameVars>>
    /\ UNCHANGED <<glShaders, glPrograms, glLinked, glVaos, glTextures, ghostVars>>
    /\ UNCHANGED <<mgrVars, cpuVars>>

----------------------------------------------------------------------------
(* The frame loop of main() and the Engine's per-frame methods *)

Range(q) == {q[i] : i \in DOMAIN q}

\* the compute target size chosen by dispatch_compute
TargetSize(cam) ==
    IF cam.moving THEN <<COMPUTE_DYNAMIC_W, COMPUTE_DYNAMIC_H>>
                  ELSE <<COMPUTE_STATIC_W, COMPUTE_STATIC_H>>

\* Engine.upload_camera: data[18], the moving slot at byte offset 72
upload_camera(cam) == cam.dragging \/ cam.panning

\* dispatch_compute reallocating the texture in every frame
dispatch_compute_realloc(cam, tex) ==
    LET size == TargetSize(cam)
    IN  [cmds |-> <<"glTexImage2D", "glUseProgram(compute)", "upload_camera",
                    "upload_disk", "upload_objects", "glBindImageTexture",
                    "glDispatchCompute", "glMemoryBarrier">>,
         tex |-> size,
         groups |-> <<CeilDiv(size[1], LocalSize), CeilDiv(size[2], LocalSize), 1>>,
         moving |-> upload_camera(cam)]

\* dispatch_compute dispatching before the objects block is uploaded
dispatch_compute_early(cam, tex) ==
    LET size == TargetSize(cam)
        realloc == tex[1] # size[1] \/ tex[2] # size[2]
    IN  [cmds |-> (IF realloc THEN <<"glTexImage2D">> ELSE <<>>)
                  \o <<"glUseProgram(compute)", "upload_camera", "upload_disk",
                       "glBindImageTexture", "glDispatchCompute",
                       "upload_objects", "glMemoryBarrier">>,
         tex |-> IF realloc THEN size ELSE tex,
         groups |-> <<CeilDiv(size[1], LocalSize), CeilDiv(size[2], LocalSize), 1>>,
         moving |-> upload_camera(cam)]

\* Engine.dispatch_compute: the commands it issues, the size of the texture
\* afterwards, the work groups and the uploaded moving slot
dispatch_compute(cam, tex) ==
    LET size == TargetSize(cam)
        realloc == tex[1] # size[1] \/ tex[2] # size[2]
    IN  [cmds |-> (IF realloc THEN <<"glTexImage2D">> ELSE <<>>)
                  \o <<"glUseProgram(compute)", "upload_camera", "upload_disk",
                       "upload_objects", "glBindImageTexture",
                       "glDispatchCompute", "glMemoryBarrier">>,
         tex |-> IF realloc THEN size ELSE tex,
         groups |-> <<CeilDiv(size[1], LocalSize), CeilDiv(size[2], LocalSize), 1>>,
         moving |-> upload_camera(cam)]

\* while not glfw.window_should_close(...): glViewport, glClearColor, glClear
LoopTop ==
    /\ pc = "loop"
    /\ IF closeFlag
       THEN pc' = "shutdown" /\ UNCHANGED cmds
       ELSE pc' = "grid" /\ cmds' = <<"glClear">>
    /\ UNCHANGED <<err, glfwInit, window, closeFlag, engine, camera, cursor,
                   texSize, groups, uboMoving>>
    /\ UNCHANGED <<glVars, ghostVars>>
    /\ UNCHANGED <<mgrVars, cpuVars>>

\* Engine.generate_grid: the handles are generated on the first call, both
\* buffers are uploaded on every call
GenerateGrid ==
    /\ pc = "grid"
    /\ IF engine.grid_vao = 0
       THEN /\ engine' = [engine EXCEPT !.grid_vao = glNext, !.grid_vbo = glNext + 1,
                                        !.grid_ebo = glNext + 2]
            /\ glVaos' = glVaos \cup {glNext}
            /\ glBuffers' = glBuffers \cup {glNext + 1, glNext + 2}
            /\ glNext' = glNext + 3
       ELSE UNCHANGED <<engine, glVaos, glBuffers, glNext>>
    /\ cmds' = cmds \o <<"glBufferData(grid_vbo)", "glBufferData(grid_ebo)">>
    /\ pc' = "draw_grid"
    /\ UNCHANGED <<err, glfwInit, window, closeFlag, camera, cursor,
                   texSize, groups, uboMoving>>
    /\ UNCHANGED <<glShaders, glPrograms, glLinked, glTextures, ghostVars>>
    /\ UNCHANGED <<mgrVars, cpuVars>>

\* Engine.draw_grid
DrawGrid ==
    /\ pc = "draw_grid"
    /\ cmds' = cmds \o <<"glUseProgram(grid)", "glDrawElements">>
    /\ pc' = "dispatch"
    /\ UNCHANGED <<err, glfwInit, window, closeFlag, engine, camera, cursor,
                   texSize, groups, uboMoving>>
    /\ UNCHANGED <<glVars, ghostVars>>
    /\ UNCHANGED <<mgrVars, cpuVars>>

DispatchCompute ==
    /\ pc = "dispatch"
    /\ LET d == dispatch_compute(camera, texSize)
       IN  /\ cmds' = cmds \o d.cmds
           /\ texSize' = d.tex
           /\ groups' = d.groups
           /\ uboMoving' = d.moving
    /\ pc' = "present"
    /\ UNCHANGED <<err, glfwInit, window, closeFlag, engine, camera, cursor>>
    /\ UNCHANGED <<glVars, ghostVars>>
    /\ UNCHANGED <<mgrVars, cpuVars>>

\* Engine.draw_fullscreen
DrawFullscreen ==
    /\ pc = "present"
    /\ cmds' = cmds \o <<"glUseProgram(present)", "glDrawArrays">>
    /\ pc' = "swap"
    /\ UNCHANGED <<err, glfwInit, window, closeFlag, engine, camera, cursor,
                   texSize, groups, uboMoving>>
    /\ UNCHANGED <<glVars, ghostVars>>
    /\ UNCHANGED <<mgrVars, cpuVars>>

\* glfw.swap_buffers; glfw.poll_events then runs the callbacks of the queued
\* events one after the other
SwapBuffers ==
    /\ pc = "swap"
    /\ cmds' = cmds \o <<"swap_buffers">>
    /\ pc' = "poll"
    /\ sawDelta' = FALSE
    /\ UNCHANGED <<err, glfwInit, window, closeFlag, engine, camera, cursor,
                   texSize, groups, uboMoving>>
    /\ UNCHANGED <<glVars, heldAtUpdate>>
    /\ UNCHANGED <<mgrVars, cpuVars>>

\* Engine._mouse_button_cb
MouseButtonEvent ==
    /\ pc = "poll"
    /\ \E button \in Buttons, action \in {PRESS, RELEASE} :
         /\ camera' = process_mouse_button(camera, cursor, button, action)
         /\ Gravity' = IF button = MOUSE_BUTTON_RIGHT THEN action = PRESS
                       ELSE Gravity
    /\ UNCHANGED <<pc, err, glfwInit, window, closeFlag, engine, cursor, frameVars>>
    /\ UNCHANGED <<glVars, ghostVars>>
    /\ UNCHANGED <<mgrVars, rayVars, hostVars, sceneVars, keys, crVars>>

\* Engine._cursor_pos_cb, called when the cursor has moved to (x, y)
CursorPosEvent ==
    /\ pc = "poll"
    /\ \E x \in CursorXs, y \in CursorYs :
         /\ <<x, y>> # cursor
         /\ camera' = process_mouse_move(camera, x, y)
         /\ camera'.azimuth <= MaxAzimuth
         /\ camera'.azimuth >= 0 - MaxAzimuth
         /\ cursor' = <<x, y>>
         /\ sawDelta' = (sawDelta \/ (camera.dragging /\ ~camera.panning
                                      /\ (x # camera.lastX \/ y # camera.lastY)))
    /\ heldAtUpdate' = (camera.dragging \/ camera.panning)
    /\ UNCHANGED <<pc, err, glfwInit, window, closeFlag, engine, frameVars>>
    /\ UNCHANGED glVars
    /\ UNCHANGED <<mgrVars, cpuVars>>

\* Engine._scroll_cb
ScrollEvent ==
    /\ pc = "poll"
    /\ \E yoff \in ScrollOffsets :
         /\ camera' = process_scroll(camera, yoff)
         /\ sawDelta' = (sawDelta \/ yoff # 0)
    /\ heldAtUpdate' = (camera.dragging \/ camera.panning)
    /\ UNCHANGED <<pc, err, glfwInit, window, closeFlag, engine, cursor, frameVars>>
    /\ UNCHANGED glVars
    /\ UNCHANGED <<mgrVars, cpuVars>>

\* the user closes the window: GLFW sets the close flag
CloseEvent ==
    /\ pc = "poll"
    /\ ~closeFlag
    /\ closeFlag' = TRUE
    /\ UNCHANGED <<pc, err, glfwInit, window, engine, camera, cursor, frameVars>>
    /\ UNCHANGED <<glVars, ghostVars>>
    /\ UNCHANGED <<mgrVars, cpuVars>>

\* glfw.poll_events returns
PollDone ==
    /\ pc = "poll"
    /\ pc' = "loop"
    /\ UNCHANGED <<err, glfwInit, window, closeFlag, engine, camera, cursor, frameVars>>
    /\ UNCHANGED <<glVars, ghostVars>>
    /\ UNCHANGED <<mgrVars, cpuVars>>

\* glfw.destroy_window; glfw.terminate: no glDelete* call is issued
Shutdown ==
    /\ pc = "shutdown"
    /\ window' = FALSE
    /\ glfwInit' = FALSE
    /\ pc' = "done"
    /\ UNCHANGED <<err, closeFlag, engine, camera, cursor, frameVars>>
    /\ UNCHANGED <<glVars, ghostVars>>
    /\ UNCHANGED <<mgrVars, cpuVars>>

MgrInit ==
    /\ bm_buffers = <<>> /\ bm_sizes = <<>> /\ bm_vaos = <<>>
    /\ sm_programs = <<>> /\ sm_current = 0 - 1 /\ sm_used = 0
    /\ op = OpRec("none", NoName, 0, 0) /\ opErr = "none" /\ opCalls = <<>> /\ opLeft = {}

\* no Ray has been constructed
RayIdle ==
    /\ rayIn = <<>> /\ rayPc = "idle" /\ ray = <<>> /\ rayErr = "none"
    /\ rayCalls = 0

\* the contents of the mesh and of the objects block are not followed
SceneIdle ==
    /\ objects = <<>> /\ gridVerts = <<>> /\ gridIndices = <<>> /\ objBlob = <<>>

\* no key has been delivered
KeysIdle == Gravity = FALSE /\ keys = <<>>

\* no ComputeRenderer has been constructed
CrIdle == cr = <<>> /\ glSyncs = {} /\ crOp = <<>>

\* no Particle and no PhysicsIntegrator has been constructed
PhysIdle == particles = <<>> /\ recorded = <<>> /\ integrator = <<>> /\ physOp = <<>>

\* no InputHandler has been constructed
InputIdle == ih = <<>> /\ ihCursor = <<>> /\ ihOp = <<>>

HostIdle == PhysIdle /\ InputIdle

CpuIdle == RayIdle /\ SceneIdle /\ KeysIdle /\ CrIdle /\ HostIdle

FramePcs == {"grid", "draw_grid", "dispatch", "present", "swap", "poll"}

Init ==
    /\ pc = "init"
    /\ err = NoErr
    /\ glfwInit = FALSE
    /\ window = FALSE
    /\ closeFlag = FALSE
    /\ engine = EngineInit
    /\ camera = CameraInit
    /\ cursor \in CursorXs \X CursorYs
    /\ texSize = <<0, 0>>
    /\ groups = <<0, 0, 0>>
    /\ uboMoving = FALSE
    /\ cmds = <<>>
    /\ glShaders = {} /\ glPrograms = {} /\ glLinked = {} /\ glBuffers = {}
    /\ glVaos = {} /\ glTextures = {} /\ glNext = 1
    /\ heldAtUpdate = FALSE /\ sawDelta = FALSE
    /\ MgrInit
    /\ CpuIdle

Next ==
    \/ CtorWindow \/ CtorQuad \/ CtorPresent \/ CtorGrid \/ CtorCompute \/ CtorUbos
    \/ LoopTop \/ GenerateGrid \/ DrawGrid \/ DispatchCompute \/ DrawFullscreen
    \/ SwapBuffers \/ MouseButtonEvent \/ CursorPosEvent \/ ScrollEvent
    \/ CloseEvent \/ PollDone \/ Shutdown

Spec == Init /\ [][Next]_vars

\* keys of the keyboard, glfw's codes
KEY_G == 71
KEY_ESCAPE == 256
KEY_SPACE == 32
Keys == {KEY_G, KEY_ESCAPE, KEY_SPACE}

\* number of key events delivered in a run
MaxKeys == 2

\* Engine._key_cb: python/renderer.py's does nothing, python/main.py's
\* toggles Gravity when G is pressed
KeyEvent ==
    /\ pc = "poll"
    /\ Len(keys) < MaxKeys
    /\ \E key \in Keys, action \in {PRESS, RELEASE} :
         /\ Gravity' = IF action = PRESS /\ key = KEY_G THEN ~Gravity ELSE Gravity
         /\ keys' = Append(keys, <<key, action>>)
    /\ UNCHANGED <<engineVars, glVars, ghostVars>>
    /\ UNCHANGED <<mgrVars, rayVars, hostVars, sceneVars, crVars>>

\* the frame loop with the keyboard and the close button as the only inputs
NextKeys ==
    \/ CtorWindow \/ CtorQuad \/ CtorPresent \/ CtorGrid \/ CtorCompute \/ CtorUbos
    \/ LoopTop \/ GenerateGrid \/ DrawGrid \/ DispatchCompute \/ DrawFullscreen
    \/ SwapBuffers \/ KeyEvent \/ CloseEvent \/ PollDone \/ Shutdown

SpecKeys == Init /\ [][NextKeys]_vars

----------------------------------------------------------------------------
(* BufferManager (gpu_rendering/buffer_manager.py) *)

DefaultBufferSize == 1000

\* the reallocation size with the factor applied to the particle count
GrowSize_count(n, c) == Max(n, (n * 3) \div 2)

\* new_size = max(particle_count, int(current_size * 1.5))
GrowSize(n, c) == Max(n, (c * 3) \div 2)

\* create_particle_buffer with n particles and the buffer handle id; outcome
\* is "ok", "gen0" (glGenBuffers returns 0), "glerror" (glGetError reports an
\* error) or "raise" (glBufferData raises)
create_particle_buffer(n, id, outcome) ==
    LET size == IF n > 0 THEN n ELSE DefaultBufferSize
    IN  IF outcome = "gen0"
        THEN [calls |-> <<"glGenBuffers">>, err |-> "BufferAllocationError",
              alive |-> FALSE, size |-> 0]
        ELSE IF outcome = "raise"
        THEN [calls |-> <<"glGenBuffers", "glBindBuffer", "glBufferData",
                          "glDeleteBuffers">>,
              err |-> "GLError", alive |-> FALSE, size |-> 0]
        ELSE IF outcome = "glerror"
        THEN \* deleted before the raise and again by the except clause
             [calls |-> <<"glGenBuffers", "glBindBuffer", "glBufferData",
                          "glBindBuffer", "glGetError", "glDeleteBuffers",
                          "glDeleteBuffers">>,
              err |-> "BufferAllocationError", alive |-> FALSE, size |-> 0]
        ELSE [calls |-> <<"glGenBuffers", "glBindBuffer", "glBufferData",
                          "glBindBuffer", "glGetError">>,
              err |-> "none", alive |-> TRUE, size |-> size]

\* update_particle_buffer of a registered buffer of capacity c with n particles
update_particle_buffer(c, n, outcome) ==
    LET fits == n <= c
        upload == IF fits
                  THEN IF n > 0 THEN <<"glBufferSubData">> ELSE <<>>
                  ELSE <<"glBufferData">>
        grown == IF fits THEN c ELSE GrowSize(n, c)
    IN  IF outcome = "raise" /\ upload # <<>>
        THEN [calls |-> <<"glBindBuffer">> \o upload \o <<"glBindBuffer">>,
              err |-> "GLError", size |-> c]
        ELSE IF outcome = "glerror"
        THEN [calls |-> <<"glBindBuffer">> \o upload
                        \o <<"glBindBuffer", "glGetError", "glBindBuffer">>,
              err |-> "BufferAllocationError", size |-> grown]
        ELSE [calls |-> <<"glBindBuffer">> \o upload \o <<"glBindBuffer", "glGetError">>,
              err |-> "none", size |-> grown]

EngineIdle == UNCHANGED <<engineVars, ghostVars, cpuVars>>

BmCreateParticleBuffer ==
    /\ glNext <= MaxHandles
    /\ \E n \in 0..MaxParticles, name \in Names \cup {NoName},
          outcome \in {"ok", "gen0", "glerror", "raise"} :
         LET id == glNext
             r == create_particle_buffer(n, id, outcome)
             reg == r.alive /\ name # NoName
         IN  /\ glNext' = IF outcome # "gen0" THEN glNext + 1 ELSE glNext
             /\ glBuffers' = IF r.alive THEN glBuffers \cup {id} ELSE glBuffers
             /\ bm_buffers' = IF reg THEN Put(bm_buffers, name, id) ELSE bm_buffers
             /\ bm_sizes' = IF reg THEN Put(bm_sizes, name, r.size) ELSE bm_sizes
             /\ op' = OpRec("create_particle_buffer", name, n, 0)
             /\ opErr' = r.err
             /\ opCalls' = r.calls
             /\ opLeft' = IF r.alive /\ ~reg THEN {id} ELSE {}
    /\ UNCHANGED <<glShaders, glPrograms, glLinked, glVaos, glTextures>>
    /\ UNCHANGED <<bm_vaos, smVars>>
    /\ EngineIdle

BmUpdateParticleBuffer ==
    /\ \E name \in Names, n \in 0..MaxParticles, outcome \in {"ok", "glerror", "raise"} :
         IF name \notin DOMAIN bm_buffers
         THEN /\ op' = OpRec("update_particle_buffer", name, n, 0)
              /\ opErr' = "KeyError"
              /\ opCalls' = <<>>
              /\ UNCHANGED bm_sizes
         ELSE LET r == update_particle_buffer(bm_sizes[name], n, outcome)
              IN  /\ op' = OpRec("update_particle_buffer", name, n, bm_sizes[name])
                  /\ opErr' = r.err
                  /\ opCalls' = r.calls
                  /\ bm_sizes' = [bm_sizes EXCEPT ![name] = r.size]
    /\ opLeft' = {}
    /\ UNCHANGED <<glVars, bm_buffers, bm_vaos, smVars>>
    /\ EngineIdle

\* create_vertex_array
BmCreateVertexArray ==
    /\ glNext <= MaxHandles
    /\ \E name \in Names \cup {NoName}, genOk \in BOOLEAN :
         /\ op' = OpRec("create_vertex_array", name, 0, 0)
         /\ IF ~genOk
            THEN /\ opErr' = "BufferAllocationError"
                 /\ opLeft' = {}
                 /\ UNCHANGED <<glVaos, glNext, bm_vaos>>
            ELSE /\ opErr' = "none"
                 /\ glVaos' = glVaos \cup {glNext}
                 /\ glNext' = glNext + 1
                 /\ bm_vaos' = IF name # NoName THEN Put(bm_vaos, name, glNext) ELSE bm_vaos
                 /\ opLeft' = IF name = NoName THEN {glNext} ELSE {}
    /\ opCalls' = <<"glGenVertexArrays">>
    /\ UNCHANGED <<glShaders, glPrograms, glLinked, glBuffers, glTextures>>
    /\ UNCHANGED <<bm_buffers, bm_sizes, smVars>>
    /\ EngineIdle

\* delete_buffer
BmDeleteBuffer ==
    /\ \E name \in Names :
         /\ op' = OpRec("delete_buffer", name, 0, 0)
         /\ IF name \notin DOMAIN bm_buffers
            THEN /\ opErr' = "KeyError"
                 /\ opCalls' = <<>>
                 /\ UNCHANGED <<glBuffers, bm_buffers, bm_sizes>>
            ELSE /\ opErr' = "none"
                 /\ opCalls' = <<"glDeleteBuffers">>
                 /\ glBuffers' = glBuffers \ {bm_buffers[name]}
                 /\ bm_buffers' = Del(bm_buffers, name)
                 /\ bm_sizes' = Del(bm_sizes, name)
    /\ opLeft' = {}
    /\ UNCHANGED <<glShaders, glPrograms, glLinked, glVaos, glTextures, glNext>>
    /\ UNCHANGED <<bm_vaos, smVars>>
    /\ EngineIdle

\* delete_vao
BmDeleteVao ==
    /\ \E name \in Names :
         /\ op' = OpRec("delete_vao", name, 0, 0)
         /\ IF name \notin DOMAIN bm_vaos
            THEN /\ opErr' = "KeyError"
                 /\ opCalls' = <<>>
                 /\ UNCHANGED <<glVaos, bm_vaos>>
            ELSE /\ opErr' = "none"
                 /\ opCalls' = <<"glDeleteVertexArrays">>
                 /\ glVaos' = glVaos \ {bm_vaos[name]}
                 /\ bm_vaos' = Del(bm_vaos, name)
    /\ opLeft' = {}
    /\ UNCHANGED <<glShaders, glPrograms, glLinked, glBuffers, glTextures, glNext>>
    /\ UNCHANGED <<bm_buffers, bm_sizes, smVars>>
    /\ EngineIdle

\* setup_particle_vertex_attributes: both names are looked up before the
\* first GL call
BmSetupParticleVertexAttributes ==
    /\ \E vao_name \in Names, buffer_name \in Names :
         /\ op' = [name |-> "setup_particle_vertex_attributes", key |-> vao_name,
                   key2 |-> buffer_name, n |-> 0, cap |-> 0]
         /\ IF vao_name \notin DOMAIN bm_vaos \/ buffer_name \notin DOMAIN bm_buffers
            THEN /\ opErr' = "KeyError"
                 /\ opCalls' = <<>>
            ELSE /\ opErr' = "none"
                 /\ opCalls' = <<"glBindVertexArray", "glBindBuffer">>
                      \o [i \in 1..8 |-> IF i % 2 = 1 THEN "glVertexAttribPointer"
                                         ELSE "glEnableVertexAttribArray"]
                      \o <<"glBindBuffer", "glBindVertexArray">>
    /\ opLeft' = {}
    /\ UNCHANGED <<glVars, bmVars, smVars>>
    /\ EngineIdle

\* bind_buffer with the lookup done by dict.get: no KeyError
BmBindBuffer_unchecked ==
    /\ \E name \in Names :
         /\ op' = OpRec("bind_buffer", name, 0, 0)
         /\ opErr' = "none" /\ opCalls' = <<"glBindBufferBase">>
    /\ opLeft' = {}
    /\ UNCHANGED <<glVars, bmVars, smVars>>
    /\ EngineIdle

\* bind_buffer
BmBindBuffer ==
    /\ \E name \in Names :
         /\ op' = OpRec("bind_buffer", name, 0, 0)
         /\ IF name \notin DOMAIN bm_buffers
            THEN opErr' = "KeyError" /\ opCalls' = <<>>
            ELSE opErr' = "none" /\ opCalls' = <<"glBindBufferBase">>
    /\ opLeft' = {}
    /\ UNCHANGED <<glVars, bmVars, smVars>>
    /\ EngineIdle

\* bind_vertex_array
BmBindVertexArray ==
    /\ \E name \in Names :
         /\ op' = OpRec("bind_vertex_array", name, 0, 0)
         /\ IF name \notin DOMAIN bm_vaos
            THEN opErr' = "KeyError" /\ opCalls' = <<>>
            ELSE opErr' = "none" /\ opCalls' = <<"glBindVertexArray">>
    /\ opLeft' = {}
    /\ UNCHANGED <<glVars, bmVars, smVars>>
    /\ EngineIdle

\* get_buffer_id
BmGetBufferId ==
    /\ \E name \in Names :
         /\ op' = OpRec("get_buffer_id", name, 0, 0)
         /\ opErr' = IF name \notin DOMAIN bm_buffers THEN "KeyError" ELSE "none"
    /\ opCalls' = <<>>
    /\ opLeft' = {}
    /\ UNCHANGED <<glVars, bmVars, smVars>>
    /\ EngineIdle

\* get_vao_id
BmGetVaoId ==
    /\ \E name \in Names :
         /\ op' = OpRec("get_vao_id", name, 0, 0)
         /\ opErr' = IF name \notin DOMAIN bm_vaos THEN "KeyError" ELSE "none"
    /\ opCalls' = <<>>
    /\ opLeft' = {}
    /\ UNCHANGED <<glVars, bmVars, smVars>>
    /\ EngineIdle

\* get_buffer_size: the lookup is in _buffer_sizes
BmGetBufferSize ==
    /\ \E name \in Names :
         IF name \notin DOMAIN bm_sizes
         THEN op' = OpRec("get_buffer_size", name, 0, 0) /\ opErr' = "KeyError"
         ELSE op' = OpRec("get_buffer_size", name, 0, bm_sizes[name]) /\ opErr' = "none"
    /\ opCalls' = <<>>
    /\ opLeft' = {}
    /\ UNCHANGED <<glVars, bmVars, smVars>>
    /\ EngineIdle

\* BufferManager.cleanup: the handles it deletes are those of the registries
cleanup_deletes(registry) == Values(registry)

BmCleanup ==
    /\ op' = OpRec("cleanup", NoName, 0, 0)
    /\ opErr' = "none"
    /\ opCalls' = (IF DOMAIN bm_buffers # {} THEN <<"glDeleteBuffers">> ELSE <<>>)
                  \o (IF DOMAIN bm_vaos # {} THEN <<"glDeleteVertexArrays">> ELSE <<>>)
    /\ glBuffers' = glBuffers \ cleanup_deletes(bm_buffers)
    /\ glVaos' = glVaos \ cleanup_deletes(bm_vaos)
    /\ bm_buffers' = <<>>
    /\ bm_sizes' = <<>>
    /\ bm_vaos' = <<>>
    /\ opLeft' = {}
    /\ UNCHANGED <<glShaders, glPrograms, glLinked, glTextures, glNext>>
    /\ UNCHANGED smVars
    /\ EngineIdle

InitMgr ==
    /\ pc = "managers"
    /\ err = NoErr
    /\ glfwInit = FALSE /\ window = FALSE /\ closeFlag = FALSE
    /\ engine = EngineInit
    /\ camera = CameraInit
    /\ cursor = <<0, 0>>
    /\ texSize = <<0, 0>> /\ groups = <<0, 0, 0>> /\ uboMoving = FALSE /\ cmds = <<>>
    /\ glShaders = {} /\ glPrograms = {} /\ glLinked = {} /\ glBuffers = {}
    /\ glVaos = {} /\ glTextures = {} /\ glNext = 1
    /\ heldAtUpdate = FALSE /\ sawDelta = FALSE
    /\ MgrInit
    /\ CpuIdle

NextBuf ==
    \/ BmCreateParticleBuffer \/ BmUpdateParticleBuffer \/ BmCreateVertexArray
    \/ BmDeleteBuffer \/ BmDeleteVao \/ BmCleanup
    \/ BmSetupParticleVertexAttributes \/ BmBindBuffer \/ BmBindVertexArray
    \/ BmGetBufferId \/ BmGetVaoId \/ BmGetBufferSize

SpecBuf == InitMgr /\ [][NextBuf]_vars

----------------------------------------------------------------------------
(* ShaderManager (gpu_rendering/shader_manager.py) *)

None == 0 - 1

\* Outcome of a load: the shaders and the program the call leaves alive, the
\* program it returns (0: it raised), the handles it consumed
LoadRec(shaders, programs, prog, used, e) ==
    [shaders |-> shaders, programs |-> programs, prog |-> prog, used |-> used,
     err |-> e]

\* load_compute_shader once the file has been read; handles next, next + 1
load_compute_shader(next, compileOk, linkOk) ==
    LET shader == next
        program == next + 1
    IN  IF ~compileOk
        THEN LoadRec({}, {}, 0, 1, "ShaderCompilationError")
        ELSE IF ~linkOk
        THEN LoadRec({}, {}, 0, 2, "ShaderCompilationError")
        ELSE LoadRec({}, {program}, program, 2, "none")

\* load_vertex_fragment_shaders once the files have been read: a fragment
\* compile failure is raised by _compile_shader, which deletes the fragment
\* shader only; the vertex shader compiled before stays
load_vertex_fragment_shaders(next, vOk, fOk, linkOk) ==
    LET vertex_shader == next
        fragment_shader == next + 1
        program == next + 2
    IN  IF ~vOk
        THEN LoadRec({}, {}, 0, 1, "ShaderCompilationError")
        ELSE IF ~fOk
        THEN LoadRec({vertex_shader}, {}, 0, 2, "ShaderCompilationError")
        ELSE IF ~linkOk
        THEN LoadRec({}, {}, 0, 3, "ShaderCompilationError")
        ELSE LoadRec({}, {program}, program, 3, "none")

\* the registry and GL state after a load with outcome r under the name
ApplyLoad(o, name, r) ==
    /\ glShaders' = glShaders \cup r.shaders
    /\ glPrograms' = glPrograms \cup r.programs
    /\ glLinked' = glLinked \cup r.programs
    /\ glNext' = glNext + r.used
    /\ sm_programs' = IF r.prog # 0 THEN Put(sm_programs, name, r.prog) ELSE sm_programs
    /\ op' = OpRec(o, name, 0, 0)
    /\ opErr' = r.err
    /\ opLeft' = r.shaders \cup (r.programs \ {r.prog})

SmLoadComputeShader ==
    /\ glNext + 1 <= MaxShaderHandles
    /\ \E name \in Names, exists, compileOk, linkOk \in BOOLEAN :
         IF ~exists
         THEN /\ op' = OpRec("load_compute_shader", name, 0, 0)
              /\ opErr' = "FileNotFoundError"
              /\ opLeft' = {}
              /\ UNCHANGED <<glShaders, glPrograms, glLinked, glNext, sm_programs>>
         ELSE ApplyLoad("load_compute_shader", name,
                        load_compute_shader(glNext, compileOk, linkOk))
    /\ opCalls' = <<>>
    /\ UNCHANGED <<glBuffers, glVaos, glTextures, bmVars, sm_current, sm_used>>
    /\ EngineIdle

SmLoadVertexFragmentShaders ==
    /\ glNext + 2 <= MaxShaderHandles
    /\ \E name \in Names, filesExist, vOk, fOk, linkOk \in BOOLEAN :
         IF ~filesExist
         THEN /\ op' = OpRec("load_vertex_fragment_shaders", name, 0, 0)
              /\ opErr' = "FileNotFoundError"
              /\ opLeft' = {}
              /\ UNCHANGED <<glShaders, glPrograms, glLinked, glNext, sm_programs>>
         ELSE ApplyLoad("load_vertex_fragment_shaders", name,
                        load_vertex_fragment_shaders(glNext, vOk, fOk, linkOk))
    /\ opCalls' = <<>>
    /\ UNCHANGED <<glBuffers, glVaos, glTextures, bmVars, sm_current, sm_used>>
    /\ EngineIdle

\* use_program: glUseProgram is issued only when the program changes
use_program(current, program_id) ==
    [calls |-> IF current # program_id THEN <<"glUseProgram">> ELSE <<>>,
     current |-> program_id]

SmUseProgram ==
    /\ \E program_id \in Values(sm_programs) \cup {0} :
         LET r == use_program(sm_current, program_id)
         IN  /\ opCalls' = r.calls
             /\ sm_current' = r.current
             /\ sm_used' = IF r.calls # <<>> THEN program_id ELSE sm_used
             /\ op' = OpRec("use_program", NoName, program_id, 0)
    /\ opErr' = "none"
    /\ opLeft' = {}
    /\ UNCHANGED <<glVars, bmVars, sm_programs>>
    /\ EngineIdle

SmUseProgramByName ==
    /\ \E name \in Names :
         /\ op' = OpRec("use_program_by_name", name, 0, 0)
         /\ IF name \notin DOMAIN sm_programs
            THEN /\ opErr' = "KeyError"
                 /\ opCalls' = <<>>
                 /\ UNCHANGED <<sm_current, sm_used>>
            ELSE LET r == use_program(sm_current, sm_programs[name])
                 IN  /\ opErr' = "none"
                     /\ opCalls' = r.calls
                     /\ sm_current' = r.current
                     /\ sm_used' = IF r.calls # <<>> THEN sm_programs[name]
                                   ELSE sm_used
    /\ opLeft' = {}
    /\ UNCHANGED <<glVars, bmVars, sm_programs>>
    /\ EngineIdle

\* get_program_id
SmGetProgramId ==
    /\ \E name \in Names :
         /\ op' = OpRec("get_program_id", name, 0, 0)
         /\ opErr' = IF name \notin DOMAIN sm_programs THEN "KeyError" ELSE "none"
    /\ opCalls' = <<>>
    /\ opLeft' = {}
    /\ UNCHANGED <<glVars, bmVars, smVars>>
    /\ EngineIdle

\* delete_program
SmDeleteProgram ==
    /\ \E name \in Names :
         /\ op' = OpRec("delete_program", name, 0, 0)
         /\ IF name \notin DOMAIN sm_programs
            THEN /\ opErr' = "KeyError"
                 /\ opCalls' = <<>>
                 /\ UNCHANGED <<glPrograms, sm_programs, sm_current, sm_used>>
            ELSE /\ opErr' = "none"
                 /\ IF sm_current = sm_programs[name]
                    THEN /\ sm_current' = None
                         /\ sm_used' = 0
                         /\ opCalls' = <<"glUseProgram", "glDeleteProgram">>
                    ELSE /\ UNCHANGED <<sm_current, sm_used>>
                         /\ opCalls' = <<"glDeleteProgram">>
                 /\ glPrograms' = glPrograms \ {sm_programs[name]}
                 /\ sm_programs' = Del(sm_programs, name)
    /\ opLeft' = {}
    /\ UNCHANGED <<glShaders, glLinked, glBuffers, glVaos, glTextures, glNext, bmVars>>
    /\ EngineIdle

\* ShaderManager.cleanup
SmCleanup ==
    /\ op' = OpRec("cleanup", NoName, 0, 0)
    /\ opErr' = "none"
    /\ opCalls' = [i \in 1..Cardinality(DOMAIN sm_programs) |-> "glDeleteProgram"]
                  \o <<"glUseProgram">>
    /\ glPrograms' = glPrograms \ cleanup_deletes(sm_programs)
    /\ sm_programs' = <<>>
    /\ sm_current' = None
    /\ sm_used' = 0
    /\ opLeft' = {}
    /\ UNCHANGED <<glShaders, glLinked, glBuffers, glVaos, glTextures, glNext, bmVars>>
    /\ EngineIdle

NextShader ==
    \/ SmLoadComputeShader \/ SmLoadVertexFragmentShaders \/ SmUseProgram
    \/ SmUseProgramByName \/ SmGetProgramId \/ SmDeleteProgram \/ SmCleanup

SpecShader == InitMgr /\ [][NextShader]_vars

\* The operations of the two managers that take a name, with the operations
\* that register names.  The managers are separate objects with no field in
\* common: a run drives one of them.
BufferOps ==
    {"create_particle_buffer", "create_vertex_array", "update_particle_buffer",
     "setup_particle_vertex_attributes", "bind_buffer", "bind_vertex_array",
     "get_buffer_id", "get_vao_id", "get_buffer_size", "delete_buffer",
     "delete_vao"}
ShaderOps ==
    {"load_compute_shader", "use_program_by_name", "get_program_id",
     "delete_program"}

NextNames ==
    \/ /\ op.name \notin ShaderOps
       /\ \/ BmCreateParticleBuffer \/ BmCreateVertexArray
          \/ BmUpdateParticleBuffer \/ BmSetupParticleVertexAttributes
          \/ BmBindBuffer \/ BmBindVertexArray \/ BmGetBufferId \/ BmGetVaoId
          \/ BmGetBufferSize \/ BmDeleteBuffer \/ BmDeleteVao
    \/ /\ op.name \notin BufferOps
       /\ \/ SmLoadComputeShader \/ SmUseProgramByName \/ SmGetProgramId
          \/ SmDeleteProgram

SpecNames == InitMgr /\ [][NextNames]_vars

----------------------------------------------------------------------------
(* The CPU geodesic integrator (python/cpu_geodesic.py)                    *)
(*                                                                         *)
(* Floats are fixed-point numbers with three decimals: lengths in units of *)
(* 1e10 m (one tick is 1e7 m), angles in units of 0.001 rad.  A number is  *)
(* a record: nan is set for the float nan.                                 *)

One == 1000          \* 1.0
RayHalfPi == 1571    \* math.pi / 2
RayPi == 3142        \* math.pi
CamZ == 6342         \* 6.34194e10
SagA_rs == 1268      \* 2.0 * G * 8.54e36 / (c*c) = 1.26839e10
StepBudget == 10000  \* range(10000)
DlamMain == 1        \* 1e7
REscape == 10000000  \* 1e14

(* Bounds of the rays of the model *)
MaxSteps == 8
NearStart == 3000
DlamSmall == 400
DlamLarge == 1000

F(v) == [nan |-> FALSE, v |-> v]
NaN == [nan |-> TRUE, v |-> 0]

Add(a, b) == IF a.nan \/ b.nan THEN NaN ELSE F(a.v + b.v)
Sub(a, b) == IF a.nan \/ b.nan THEN NaN ELSE F(a.v - b.v)
Neg(a) == IF a.nan THEN NaN ELSE F(0 - a.v)
Mul(a, b) == IF a.nan \/ b.nan THEN NaN ELSE F((a.v * b.v) \div One)
\* a / b where b is not zero, or where the operands are numpy scalars and
\* 0.0 / 0.0 gives nan with a warning (the rays of the model never divide a
\* non-zero numpy scalar by zero)
Div(a, b) ==
    IF a.nan \/ b.nan \/ b.v = 0 THEN NaN ELSE F((a.v * One) \div b.v)
\* a <= b and a > b: both are False when an operand is nan
Le(a, b) == ~a.nan /\ ~b.nan /\ a.v <= b.v
Gt(a, b) == ~a.nan /\ ~b.nan /\ a.v > b.v

RECURSIVE SqrtBetween(_, _, _)
SqrtBetween(n, lo, hi) ==
    IF lo = hi THEN lo
    ELSE LET mid == (lo + hi + 1) \div 2
         IN  IF mid * mid <= n THEN SqrtBetween(n, mid, hi)
             ELSE SqrtBetween(n, lo, mid - 1)
ISqrt(n) == SqrtBetween(n, 0, 46340)

\* math.sqrt of a non-negative number
Sqrt(a) == IF a.nan THEN NaN ELSE F(ISqrt(a.v * One))

\* math.sqrt(x*x + y*y + z*z), rounded once
Norm3(x, y, z) == F(ISqrt(x.v * x.v + y.v * y.v + z.v * z.v))

\* math.sin on [0, pi] by Bhaskara's rational approximation, which is exact
\* at 0, pi/2 and pi; extended by sin(t + pi) = -sin(t)
SinArc(t) ==
    LET p == t * (RayPi - t)
    IN  (16 * p) \div ((5 * RayPi * RayPi - 4 * p) \div One)
SinT(a) ==
    IF a.nan THEN NaN
    ELSE LET t == a.v % (2 * RayPi)
         IN  IF t <= RayPi THEN F(SinArc(t)) ELSE F(0 - SinArc(t - RayPi))
CosT(a) == IF a.nan THEN NaN ELSE SinT(F(a.v + RayHalfPi))

\* math.acos on [-1, 1], the inverse of the same approximation
ACosArc(c) == Mul(F(RayPi), Sqrt(Div(F(One - c), F(4 * One + c)))).v
ACosT(a) == IF a.v >= 0 THEN F(ACosArc(a.v)) ELSE F(RayPi - ACosArc(0 - a.v))

\* math.atan2(y, x)
ATan2(y, x) ==
    IF y.v = 0 THEN (IF x.v >= 0 THEN F(0) ELSE F(RayPi))
    ELSE LET a == ACosT(Div(x, Norm3(x, y, F(0))))
         IN  IF y.v > 0 THEN a ELSE Neg(a)

Two == 2000          \* 2.0
Six == 6000          \* 6.0

\* [r, theta, phi, dr, dtheta, dphi] of a Ray
State6(q) == <<q.r, q.theta, q.phi, q.dr, q.dtheta, q.dphi>>

\* Ray.__init__(pos, dir, rs); kind is "numpy" when pos and dir are numpy
\* arrays (their elements are numpy scalars, for which a division by zero
\* gives nan) and "float" when they hold Python floats (ZeroDivisionError)
RayNew(pos, dir, rs, kind) ==
    LET x == pos[1]
        y == pos[2]
        z == pos[3]
        dx == dir[1]
        dy == dir[2]
        dz == dir[3]
        r == Norm3(x, y, z)
        theta == ACosT(Div(z, r))
        phi == ATan2(y, x)
        st == SinT(theta)
        ct == CosT(theta)
        sp == SinT(phi)
        cp == CosT(phi)
        dr == Add(Add(Mul(Mul(st, cp), dx), Mul(Mul(st, sp), dy)), Mul(ct, dz))
        dtheta == Div(Sub(Add(Mul(Mul(ct, cp), dx), Mul(Mul(ct, sp), dy)),
                          Mul(st, dz)), r)
        den == Mul(r, st)
        dphi == Div(Add(Mul(Neg(sp), dx), Mul(cp, dy)), den)
        L == Mul(Mul(Mul(r, r), st), dphi)
        f == Sub(F(One), Div(rs, r))
        dt_dlam == Sqrt(Add(Div(Mul(dr, dr), f),
                            Mul(Mul(r, r), Add(Mul(dtheta, dtheta),
                                               Mul(Mul(st, st), Mul(dphi, dphi))))))
        E == Mul(f, dt_dlam)
    IN  IF den.v = 0 /\ kind = "float"
        THEN [err |-> "ZeroDivisionError", ray |-> <<>>]
        ELSE [err |-> "none",
              ray |-> [x |-> x, y |-> y, z |-> z, r |-> r, theta |-> theta,
                       phi |-> phi, dr |-> dr, dtheta |-> dtheta, dphi |-> dphi,
                       L |-> L, E |-> E, rs |-> rs]]

\* rhs() of Ray.step, at the six-vector s: math.cos(th)/math.sin(th) divides
\* two Python floats
rhs(s, E, rs) ==
    LET r == s[1]
        th == s[2]
        dr == s[4]
        dth == s[5]
        dph == s[6]
        f == Sub(F(One), Div(rs, r))
        dt_dlam == Div(E, f)
        sin == SinT(th)
        cos == CosT(th)
        dr2 == Add(Add(Mul(Mul(Neg(Div(rs, Mul(Mul(F(Two), r), r))), f),
                           Mul(dt_dlam, dt_dlam)),
                       Mul(Div(rs, Mul(Mul(Mul(F(Two), r), r), f)), Mul(dr, dr))),
                   Mul(r, Add(Mul(dth, dth), Mul(Mul(sin, sin), Mul(dph, dph)))))
        dth2 == Add(Mul(Mul(Neg(Div(F(Two), r)), dr), dth),
                    Mul(Mul(sin, cos), Mul(dph, dph)))
        dph2 == Sub(Mul(Mul(Neg(Div(F(Two), r)), dr), dph),
                    Mul(Mul(Div(Mul(F(Two), cos), sin), dth), dph))
    IN  IF ~sin.nan /\ sin.v = 0
        THEN [err |-> "ZeroDivisionError", k |-> <<>>]
        ELSE [err |-> "none", k |-> <<dr, dth, dph, dr2, dth2, dph2>>]

\* state + (dlam/6.0)*(k1 + 2*k2 + 2*k3 + k4)
Combine(s, dlam, k1, k2, k3, k4) ==
    [i \in 1..6 |->
        Add(s[i], Mul(Div(dlam, F(Six)),
                      Add(Add(Add(k1[i], Mul(F(Two), k2[i])), Mul(F(Two), k3[i])),
                          k4[i])))]

\* the fields of the Ray q after the assignments of step from the six-vector n
Assign(q, n) ==
    [q EXCEPT !.r = n[1], !.theta = n[2], !.phi = n[3], !.dr = n[4],
              !.dtheta = n[5], !.dphi = n[6],
              !.x = Mul(Mul(n[1], SinT(n[2])), CosT(n[3])),
              !.y = Mul(Mul(n[1], SinT(n[2])), SinT(n[3])),
              !.z = Mul(n[1], CosT(n[2]))]

\* Ray.step with a captured ray marked by zeroing its velocity
step_freeze(q, dlam) ==
    IF Le(q.r, q.rs)
    THEN [err |-> "none", ray |-> [q EXCEPT !.dr = F(0), !.dtheta = F(0), !.dphi = F(0)]]
    ELSE LET k1 == rhs(State6(q), q.E, q.rs)
         IN  IF k1.err # "none" THEN [err |-> k1.err, ray |-> q]
             ELSE [err |-> "none",
                   ray |-> Assign(q, Combine(State6(q), dlam, k1.k, k1.k, k1.k, k1.k))]

\* Ray.step(dlam): rhs() takes no argument and reads the fields of the Ray,
\* which are assigned only after k4: the four stages are taken at the same
\* point
step(q, dlam) ==
    IF Le(q.r, q.rs) THEN [err |-> "none", ray |-> q]
    ELSE LET k1 == rhs(State6(q), q.E, q.rs)
             state == State6(q)
             k2 == rhs(State6(q), q.E, q.rs)
             k3 == rhs(State6(q), q.E, q.rs)
             k4 == rhs(State6(q), q.E, q.rs)
         IN  IF k1.err # "none" THEN [err |-> k1.err, ray |-> q]
             ELSE [err |-> "none",
                   ray |-> Assign(q, Combine(state, dlam, k1.k, k2.k, k3.k, k4.k))]

\* the __main__ block: BlackHole(8.54e36), Camera(), the forward direction
MainPos == <<F(0), F(0), F(CamZ)>>
MainTarget == <<F(0), F(0), F(0)>>
MainForward ==
    LET d == [i \in 1..3 |-> Sub(MainTarget[i], MainPos[i])]
        n == Norm3(d[1], d[2], d[3])
    IN  [i \in 1..3 |-> Div(d[i], n)]
MainIn ==
    [pos |-> MainPos, dir |-> MainForward, rs |-> F(SagA_rs), kind |-> "numpy",
     dlam |-> F(DlamMain), driver |-> "main"]

\* the rays a caller of the class constructs: from the polar axis toward the
\* origin, and from the x axis inward, sideways and in between
RayInputs ==
    {[pos |-> MainPos, dir |-> <<F(0), F(0), F(0 - One)>>, rs |-> F(SagA_rs),
      kind |-> kind, dlam |-> F(dlam), driver |-> "steps"] :
        kind \in {"numpy", "float"}, dlam \in {DlamSmall, DlamLarge}}
    \cup
    {[pos |-> <<F(x), F(0), F(0)>>, dir |-> dir, rs |-> F(SagA_rs),
      kind |-> kind, dlam |-> F(dlam), driver |-> "steps"] :
        x \in {CamZ, NearStart},
        dir \in {<<F(0 - One), F(0), F(0)>>, <<F(0), F(One), F(0)>>,
                 <<F(0 - 600), F(800), F(0)>>},
        kind \in {"numpy", "float"}, dlam \in {DlamSmall, DlamLarge}}

\* r = Ray(pos, dir, rs)
RayConstruct ==
    /\ rayPc = "new"
    /\ LET n == RayNew(rayIn.pos, rayIn.dir, rayIn.rs, rayIn.kind)
       IN  /\ rayErr' = n.err
           /\ ray' = n.ray
           /\ rayPc' = IF n.err = "none" THEN "built" ELSE "raised"
    /\ UNCHANGED <<rayIn, rayCalls>>
    /\ UNCHANGED <<engineVars, glVars, ghostVars, mgrVars, sceneVars, keyVars, crVars, hostVars>>

\* a caller's r.step(dlam)
RayStep ==
    /\ rayPc = "built"
    /\ rayIn.driver = "steps"
    /\ rayCalls < MaxSteps
    /\ LET n == step(ray, rayIn.dlam)
       IN  /\ rayErr' = n.err
           /\ ray' = n.ray
           /\ rayPc' = IF n.err = "none" THEN "built" ELSE "raised"
    /\ rayCalls' = rayCalls + 1
    /\ UNCHANGED rayIn
    /\ UNCHANGED <<engineVars, glVars, ghostVars, mgrVars, sceneVars, keyVars, crVars, hostVars>>

\* the loop without its break: every iteration but the last goes on
MainIterationNoBreak ==
    /\ rayPc = "built"
    /\ rayIn.driver = "main"
    /\ rayCalls < StepBudget
    /\ LET n == step(ray, rayIn.dlam)
       IN  /\ rayErr' = n.err
           /\ ray' = n.ray
           /\ rayPc' = IF n.err # "none" THEN "raised"
                       ELSE IF rayCalls + 1 = StepBudget THEN "ended"
                       ELSE "built"
    /\ rayCalls' = rayCalls + 1
    /\ UNCHANGED rayIn
    /\ UNCHANGED <<engineVars, glVars, ghostVars, mgrVars, sceneVars, keyVars, crVars, hostVars>>

\* one iteration of the loop of the __main__ block: r.step(1e7), the test of
\* the break, and the end of the range
MainIteration ==
    /\ rayPc = "built"
    /\ rayIn.driver = "main"
    /\ rayCalls < StepBudget
    /\ LET n == step(ray, rayIn.dlam)
       IN  /\ rayErr' = n.err
           /\ ray' = n.ray
           /\ rayPc' = IF n.err # "none" THEN "raised"
                       ELSE IF Gt(n.ray.r, F(REscape)) \/ Le(n.ray.r, rayIn.rs)
                            \/ rayCalls + 1 = StepBudget
                       THEN "ended"
                       ELSE "built"
    /\ rayCalls' = rayCalls + 1
    /\ UNCHANGED rayIn
    /\ UNCHANGED <<engineVars, glVars, ghostVars, mgrVars, sceneVars, keyVars, crVars, hostVars>>

EngineOff ==
    /\ err = NoErr
    /\ glfwInit = FALSE /\ window = FALSE /\ closeFlag = FALSE
    /\ engine = EngineInit
    /\ camera = CameraInit
    /\ cursor = <<0, 0>>
    /\ texSize = <<0, 0>> /\ groups = <<0, 0, 0>> /\ uboMoving = FALSE /\ cmds = <<>>
    /\ glShaders = {} /\ glPrograms = {} /\ glLinked = {} /\ glBuffers = {}
    /\ glVaos = {} /\ glTextures = {} /\ glNext = 1
    /\ heldAtUpdate = FALSE /\ sawDelta = FALSE
    /\ MgrInit

InitRay ==
    /\ pc = "cpu_geodesic"
    /\ EngineOff
    /\ rayIn \in RayInputs \cup {MainIn}
    /\ rayPc = "new"
    /\ ray = <<>>
    /\ rayErr = "none"
    /\ rayCalls = 0
    /\ SceneIdle /\ KeysIdle /\ CrIdle /\ HostIdle

NextRay == RayConstruct \/ RayStep \/ MainIteration

SpecRay == InitRay /\ [][NextRay]_vars

\* the loop of the __main__ block on rays that start off the polar axis:
\* sent inward from the camera distance, and sent sideways with the step of
\* the block
LoopInputs ==
    {MainIn}
    \cup
    {[pos |-> <<F(CamZ), F(0), F(0)>>, dir |-> <<F(0 - One), F(0), F(0)>>,
      rs |-> F(SagA_rs), kind |-> kind, dlam |-> F(dlam), driver |-> "main"] :
        kind \in {"numpy", "float"}, dlam \in {DlamSmall, DlamLarge}}
    \cup
    {[pos |-> <<F(x), F(0), F(0)>>, dir |-> <<F(0), F(One), F(0)>>,
      rs |-> F(SagA_rs), kind |-> kind, dlam |-> F(DlamMain), driver |-> "main"] :
        x \in {CamZ}, kind \in {"numpy", "float"}}

InitLoop ==
    /\ pc = "cpu_geodesic"
    /\ EngineOff
    /\ rayIn \in LoopInputs
    /\ rayPc = "new"
    /\ ray = <<>>
    /\ rayErr = "none"
    /\ rayCalls = 0
    /\ SceneIdle /\ KeysIdle /\ CrIdle /\ HostIdle

NextLoop == RayConstruct \/ MainIteration

SpecLoop == InitLoop /\ [][NextLoop]_vars

----------------------------------------------------------------------------
(* The curvature grid and the objects block: Engine.generate_grid and      *)
(* Engine.upload_objects (python/renderer.py, python/main.py).             *)
(* Lengths in this section are in units of 1e8 m, masses in units of       *)
(* 1e30 kg; (gridSize + 1)^2 vertices are stored as x, y, z triples.       *)

gridSize == 25
spacing == 100           \* 1e10
GridDrop == 300          \* 3e10
MAX_OBJECTS == 16
TwoGOverC2 == 1485       \* 2.0 * G / (c*c) = 1.485e-27 m/kg
FloatBytes == 4          \* np.float32 itemsize
MantissaBits == 23       \* np.float32

\* number of objects in a drawn scene
MaxObjects == 2

\* an object is (x, y, z, r, cr, cg, cb, mass)
Sun == <<4000, 0, 4000, 400, 1, 1, 0, 2>>
SagAObj == <<0, 0, 0, 126, 0, 0, 0, 8540000>>
OffCentre == <<0 - 450, 0, 50, 200, 1, 0, 0, 4000000>>
Far == <<0 - 1250, 0, 1250, 50, 0, 1, 1, 1000000>>
Dust == <<350, 100, 0 - 350, 1, 0, 1, 0, 1>>
ObjectChoices == {Sun, SagAObj, OffCentre, Far, Dust}

\* more objects than the block holds
Crowd == [i \in 1..(MAX_OBJECTS + 1) |-> IF i = 1 THEN SagAObj ELSE Sun]

ObjectLists ==
    UNION {[1..n -> ObjectChoices] : n \in 0..MaxObjects} \cup {Crowd}

\* rs = 2.0 * G * mass / (c*c)
SchwarzschildOf(mass) == ((mass \div 1000) * TwoGOverC2) \div 100000

\* (x - gridSize/2) * spacing
World(k) == ((2 * k - gridSize) * spacing) \div 2

\* the term one object adds to y, before the 3e10 is taken off
Lift(obj, worldX, worldZ) ==
    LET rs == SchwarzschildOf(obj[8])
        dx == worldX - obj[1]
        dz == worldZ - obj[3]
        dist == ISqrt(dx * dx + dz * dz)
    IN  IF dist > rs THEN 2 * ISqrt(rs * (dist - rs))
        ELSE 2 * ISqrt(rs * rs)

\* the inner loop of generate_grid over the first n objects:
\* y = 0.0, then y += deltaY - 3e10 for each object
RECURSIVE GridY(_, _, _, _)
GridY(objs, n, worldX, worldZ) ==
    IF n = 0 THEN 0
    ELSE GridY(objs, n - 1, worldX, worldZ)
         + (Lift(objs[n], worldX, worldZ) - GridDrop)

\* largest e with 2^e <= n, for n >= 1
RECURSIVE Log2(_)
Log2(n) == IF n < 2 THEN 0 ELSE 1 + Log2(n \div 2)

RECURSIVE Pow2(_)
Pow2(e) == IF e = 0 THEN 1 ELSE 2 * Pow2(e - 1)

Abs(v) == IF v < 0 THEN 0 - v ELSE v

\* the value a float takes when stored as np.float32: 24 significant bits
\* (round to nearest, ties to even)
Float32(v) ==
    LET a == Abs(v)
        e == Log2(a)
    IN  IF a = 0 \/ e <= MantissaBits THEN v
        ELSE LET ulp == Pow2(e - MantissaBits)
                 lo == (a \div ulp) * ulp
                 rest == a - lo
                 up == IF 2 * rest > ulp THEN TRUE
                       ELSE IF 2 * rest < ulp THEN FALSE
                       ELSE (a \div ulp) % 2 = 1
                 m == IF up THEN lo + ulp ELSE lo
             IN  IF v < 0 THEN 0 - m ELSE m

\* verts of generate_grid: worldX, y, worldZ for z in range(gridSize+1), for x
\* in range(gridSize+1), as np.float32
GridVerts(objs) ==
    [k \in 1..(3 * (gridSize + 1) * (gridSize + 1)) |->
        LET v == (k - 1) \div 3
            x == v % (gridSize + 1)
            z == v \div (gridSize + 1)
        IN  CASE (k - 1) % 3 = 0 -> Float32(World(x))
              [] (k - 1) % 3 = 1 -> Float32(GridY(objs, Len(objs), World(x), World(z)))
              [] OTHER -> Float32(World(z))]

\* indices of generate_grid drawing both lines of a cell along the diagonal
GridIndices_diagonal ==
    [k \in 1..(4 * gridSize * gridSize) |->
        LET cell == (k - 1) \div 4
            x == cell % gridSize
            z == cell \div gridSize
            i == z * (gridSize + 1) + x
        IN  CASE (k - 1) % 4 = 1 -> i + gridSize + 2
              [] (k - 1) % 4 = 3 -> i + gridSize + 2
              [] OTHER -> i]

\* indices of generate_grid: [i, i+1, i, i+gridSize+1] for z in
\* range(gridSize), for x in range(gridSize), with i = z*(gridSize+1) + x
GridIndices ==
    [k \in 1..(4 * gridSize * gridSize) |->
        LET cell == (k - 1) \div 4
            x == cell % gridSize
            z == cell \div gridSize
            i == z * (gridSize + 1) + x
        IN  CASE (k - 1) % 4 = 1 -> i + 1
              [] (k - 1) % 4 = 3 -> i + gridSize + 1
              [] OTHER -> i]

\* the four bytes of a non-negative 32-bit pattern, least significant first
LittleEndian(bits) ==
    <<bits % 256, (bits \div 256) % 256, (bits \div 65536) % 256,
      bits \div 16777216>>

\* tobytes() of one np.float32 holding the whole number v: sign, biased
\* exponent, 23 mantissa bits
Float32Bytes(v) ==
    LET a == Abs(Float32(v))
        e == Log2(a)
        mant == IF e <= MantissaBits THEN (a - Pow2(e)) * Pow2(MantissaBits - e)
                ELSE (a - Pow2(e)) \div Pow2(e - MantissaBits)
        b == LittleEndian((e + 127) * Pow2(MantissaBits) + mant)
    IN  IF a = 0 THEN <<0, 0, 0, 0>>
        ELSE IF v < 0 THEN [b EXCEPT ![4] = b[4] + 128]
        ELSE b

\* tobytes() of an np.float32 array
ToBytes(floats) ==
    [k \in 1..(FloatBytes * Len(floats)) |->
        Float32Bytes(floats[(k - 1) \div FloatBytes + 1])[((k - 1) % FloatBytes) + 1]]

\* the arrays of upload_objects, flattened in row order
UploadCount(objs) == IF Len(objs) < MAX_OBJECTS THEN Len(objs) ELSE MAX_OBJECTS

PosRadiusArray(objs) ==
    [k \in 1..(4 * MAX_OBJECTS) |->
        LET i == (k - 1) \div 4 + 1
        IN  IF i <= UploadCount(objs) THEN objs[i][((k - 1) % 4) + 1] ELSE 0]

ColorArray(objs) ==
    [k \in 1..(4 * MAX_OBJECTS) |->
        LET i == (k - 1) \div 4 + 1
            j == ((k - 1) % 4) + 1
        IN  IF i > UploadCount(objs) THEN 0
            ELSE IF j = 4 THEN 1
            ELSE objs[i][4 + j]]

MassArray(objs) ==
    [i \in 1..MAX_OBJECTS |-> IF i <= UploadCount(objs) THEN objs[i][8] ELSE 0]

\* blob of upload_objects: header.tobytes() + posRadius.tobytes()
\* + color.tobytes() + mass.tobytes()
upload_objects(objs) ==
    ToBytes(<<UploadCount(objs), 0, 0, 0>>)
    \o ToBytes(PosRadiusArray(objs)) \o ToBytes(ColorArray(objs))
    \o ToBytes(MassArray(objs))

\* the Engine after a constructor in which every shader compiled and linked
EngineBuilt ==
    [quad_vao |-> 1, texture |-> 3, present_prog |-> 6, grid_prog |-> 9,
     compute_prog |-> 11, camera_ubo |-> 12, disk_ubo |-> 13, objects_ubo |-> 14,
     grid_vao |-> 0, grid_vbo |-> 0, grid_ebo |-> 0]

\* Engine.generate_grid with the mesh it uploads
GenerateGridMesh ==
    /\ pc = "grid_mesh"
    /\ gridVerts' = GridVerts(objects)
    /\ gridIndices' = GridIndices
    /\ IF engine.grid_vao = 0
       THEN /\ engine' = [engine EXCEPT !.grid_vao = glNext, !.grid_vbo = glNext + 1,
                                        !.grid_ebo = glNext + 2]
            /\ glVaos' = glVaos \cup {glNext}
            /\ glBuffers' = glBuffers \cup {glNext + 1, glNext + 2}
            /\ glNext' = glNext + 3
       ELSE UNCHANGED <<engine, glVaos, glBuffers, glNext>>
    /\ cmds' = <<"glBufferData(grid_vbo)", "glBufferData(grid_ebo)">>
    /\ pc' = "upload_objects"
    /\ UNCHANGED <<err, glfwInit, window, closeFlag, camera, cursor,
                   texSize, groups, uboMoving>>
    /\ UNCHANGED <<glShaders, glPrograms, glLinked, glTextures, ghostVars>>
    /\ UNCHANGED <<mgrVars, rayVars, hostVars, keyVars, crVars, objects, objBlob>>

\* Engine.upload_objects with the bytes it writes
UploadObjects ==
    /\ pc = "upload_objects"
    /\ objBlob' = upload_objects(objects)
    /\ cmds' = cmds \o <<"glBufferSubData(objects_ubo)">>
    /\ pc' = "grid_mesh"
    /\ UNCHANGED <<err, glfwInit, window, closeFlag, engine, camera, cursor,
                   texSize, groups, uboMoving>>
    /\ UNCHANGED <<glVars, ghostVars>>
    /\ UNCHANGED <<mgrVars, rayVars, hostVars, keyVars, crVars, objects, gridVerts, gridIndices>>

\* a constructed Engine drawing a scene of the objects given; of each frame
\* only the two calls that build the mesh and the objects block are followed
InitScene ==
    /\ pc = "grid_mesh"
    /\ err = NoErr
    /\ glfwInit = TRUE /\ window = TRUE /\ closeFlag = FALSE
    /\ engine = EngineBuilt
    /\ camera = CameraInit
    /\ cursor = <<0, 0>>
    /\ texSize = <<COMPUTE_STATIC_W, COMPUTE_STATIC_H>>
    /\ groups = <<0, 0, 0>> /\ uboMoving = FALSE /\ cmds = <<>>
    /\ glShaders = {} /\ glPrograms = {6, 9, 11} /\ glLinked = {6, 9, 11}
    /\ glBuffers = {2, 12, 13, 14} /\ glVaos = {1} /\ glTextures = {3}
    /\ glNext = 15
    /\ heldAtUpdate = FALSE /\ sawDelta = FALSE
    /\ MgrInit
    /\ RayIdle /\ KeysIdle /\ CrIdle /\ HostIdle
    /\ objects \in ObjectLists
    /\ gridVerts = <<>> /\ gridIndices = <<>> /\ objBlob = <<>>

NextScene == GenerateGridMesh \/ UploadObjects

SpecScene == InitScene /\ [][NextScene]_vars

----------------------------------------------------------------------------
(* ComputeRenderer (gpu_rendering/compute_renderer.py).  None is 0 for the   *)
(* program and the fence; the clock readings of the performance counters     *)
(* are not followed, only the dispatch count.                                *)

DefaultWorkGroupSize == 64
WorkGroupSizes == {0, 32, DefaultWorkGroupSize, 128}
DefaultTimeoutNs == 1000000000
TimeoutsNs == {0, DefaultTimeoutNs}

\* number of sync objects created in a run
MaxSyncs == 3

\* what glClientWaitSync can return
WaitResults == {"GL_ALREADY_SIGNALED", "GL_TIMEOUT_EXPIRED",
                "GL_CONDITION_SATISFIED", "GL_WAIT_FAILED"}

\* ComputeRenderer.__init__
CrInit ==
    [particle_update_program |-> 0, dispatch_count |-> 0,
     local_work_group_size |-> DefaultWorkGroupSize, sync_fence |-> 0]

CrOpRec(name, arg, fence, result, ret, error, calls) ==
    [name |-> name, arg |-> arg, fence |-> fence, result |-> result,
     ret |-> ret, err |-> error, calls |-> calls]

\* synchronize_gpu returning on a timeout before the fence is deleted
synchronize_gpu_early(c, syncs, fence, result) ==
    IF fence = 0
    THEN [cr |-> [c EXCEPT !.sync_fence = 0], syncs |-> syncs, ret |-> FALSE,
          calls |-> <<"glFenceSync">>]
    ELSE IF result = "GL_TIMEOUT_EXPIRED"
    THEN [cr |-> [c EXCEPT !.sync_fence = fence], syncs |-> syncs \cup {fence},
          ret |-> FALSE, calls |-> <<"glFenceSync", "glClientWaitSync">>]
    ELSE [cr |-> [c EXCEPT !.sync_fence = 0],
          syncs |-> (syncs \cup {fence}) \ {fence},
          ret |-> result \in {"GL_ALREADY_SIGNALED", "GL_CONDITION_SATISFIED"},
          calls |-> <<"glFenceSync", "glClientWaitSync", "glDeleteSync">>]

\* ComputeRenderer.synchronize_gpu, glFenceSync giving fence (0: None) and
\* glClientWaitSync giving result
synchronize_gpu(c, syncs, fence, result) ==
    IF fence = 0
    THEN [cr |-> [c EXCEPT !.sync_fence = 0], syncs |-> syncs, ret |-> FALSE,
          calls |-> <<"glFenceSync">>]
    ELSE [cr |-> [c EXCEPT !.sync_fence = 0],
          syncs |-> (syncs \cup {fence}) \ {fence},
          ret |-> result \in {"GL_ALREADY_SIGNALED", "GL_CONDITION_SATISFIED"},
          calls |-> <<"glFenceSync", "glClientWaitSync", "glDeleteSync">>]

CrSynchronizeGpu ==
    /\ pc = "compute_renderer"
    /\ glNext <= MaxSyncs
    /\ \E fence \in {0, glNext}, result \in WaitResults, timeout_ns \in TimeoutsNs :
         LET s == synchronize_gpu(cr, glSyncs, fence, result)
         IN  /\ cr' = s.cr
             /\ glSyncs' = s.syncs
             /\ glNext' = IF fence = 0 THEN glNext ELSE glNext + 1
             /\ crOp' = CrOpRec("synchronize_gpu", timeout_ns, fence,
                                IF fence = 0 THEN "none" ELSE result,
                                s.ret, "none", s.calls)
    /\ UNCHANGED <<engineVars, ghostVars, mgrVars, rayVars, hostVars, sceneVars, keyVars>>
    /\ UNCHANGED <<glShaders, glPrograms, glLinked, glBuffers, glVaos, glTextures>>

\* ComputeRenderer.set_local_work_group_size
CrSetLocalWorkGroupSize ==
    /\ pc = "compute_renderer"
    /\ \E size \in WorkGroupSizes :
         IF size <= 0
         THEN /\ crOp' = CrOpRec("set_local_work_group_size", size, 0, "none",
                                 FALSE, "ValueError", <<>>)
              /\ UNCHANGED cr
         ELSE /\ crOp' = CrOpRec("set_local_work_group_size", size, 0, "none",
                                 FALSE, "none", <<>>)
              /\ cr' = [cr EXCEPT !.local_work_group_size = size]
    /\ UNCHANGED <<engineVars, glVars, ghostVars, mgrVars, rayVars, hostVars, sceneVars,
                   keyVars, glSyncs>>

\* ComputeRenderer.reset_performance_stats
CrResetPerformanceStats ==
    /\ pc = "compute_renderer"
    /\ cr' = [cr EXCEPT !.dispatch_count = 0]
    /\ crOp' = CrOpRec("reset_performance_stats", 0, 0, "none", FALSE, "none", <<>>)
    /\ UNCHANGED <<engineVars, glVars, ghostVars, mgrVars, rayVars, hostVars, sceneVars,
                   keyVars, glSyncs>>

\* ComputeRenderer.cleanup: a fence still held is deleted, the program is
\* forgotten, the counters are reset
CrCleanup ==
    /\ pc = "compute_renderer"
    /\ cr' = [cr EXCEPT !.sync_fence = 0, !.particle_update_program = 0,
                        !.dispatch_count = 0]
    /\ glSyncs' = glSyncs \ {cr.sync_fence}
    /\ crOp' = CrOpRec("cleanup", 0, cr.sync_fence, "none", FALSE, "none",
                       IF cr.sync_fence # 0 THEN <<"glDeleteSync">> ELSE <<>>)
    /\ UNCHANGED <<engineVars, glVars, ghostVars, mgrVars, rayVars, hostVars, sceneVars,
                   keyVars>>

\* number of dispatches counted in a run
MaxDispatches == 2

\* particle counts handed to dispatch_particle_update
DispatchCounts == {0 - 1, 0, 1, DefaultWorkGroupSize, DefaultWorkGroupSize + 1, 150}

\* a GL call with its integer arguments
GlCall(f, args) == [f |-> f, args |-> args]

\* what a dispatch_particle_update call was given and found
DispatchArg(c, buffers, n, name) ==
    [n |-> n, buffer |-> name, program |-> c.particle_update_program,
     size |-> c.local_work_group_size, count |-> c.dispatch_count,
     id |-> IF name \in DOMAIN buffers THEN buffers[name] ELSE 0]

\* dispatch_particle_update with the work groups rounded down
dispatch_particle_update_floor(c, current, buffers, n, name) ==
    IF c.particle_update_program = 0
    THEN [cr |-> c, current |-> current, err |-> "RuntimeError", calls |-> <<>>]
    ELSE IF n <= 0
    THEN [cr |-> c, current |-> current, err |-> "none", calls |-> <<>>]
    ELSE LET u == use_program(current, c.particle_update_program)
             used == [i \in 1..Len(u.calls) |->
                         GlCall(u.calls[i], <<c.particle_update_program>>)]
             work_groups == n \div c.local_work_group_size
         IN  IF name \notin DOMAIN buffers
             THEN [cr |-> c, current |-> u.current, err |-> "KeyError",
                   calls |-> used]
             ELSE [cr |-> [c EXCEPT !.dispatch_count = @ + 1],
                   current |-> u.current, err |-> "none",
                   calls |-> used \o
                       <<GlCall("glBindBufferBase", <<0, buffers[name]>>),
                         GlCall("glDispatchCompute", <<work_groups, 1, 1>>),
                         GlCall("glMemoryBarrier(GL_SHADER_STORAGE_BARRIER_BIT)", <<>>)>>]

\* ComputeRenderer.dispatch_particle_update over a ShaderManager whose bound
\* program is current and a BufferManager whose registry is buffers
dispatch_particle_update(c, current, buffers, n, name) ==
    IF c.particle_update_program = 0
    THEN [cr |-> c, current |-> current, err |-> "RuntimeError", calls |-> <<>>]
    ELSE IF n <= 0
    THEN [cr |-> c, current |-> current, err |-> "none", calls |-> <<>>]
    ELSE LET u == use_program(current, c.particle_update_program)
             used == [i \in 1..Len(u.calls) |->
                         GlCall(u.calls[i], <<c.particle_update_program>>)]
             work_groups == (n + c.local_work_group_size - 1)
                                \div c.local_work_group_size
         IN  IF name \notin DOMAIN buffers
             THEN [cr |-> c, current |-> u.current, err |-> "KeyError",
                   calls |-> used]
             ELSE [cr |-> [c EXCEPT !.dispatch_count = @ + 1],
                   current |-> u.current, err |-> "none",
                   calls |-> used \o
                       <<GlCall("glBindBufferBase", <<0, buffers[name]>>),
                         GlCall("glDispatchCompute", <<work_groups, 1, 1>>),
                         GlCall("glMemoryBarrier(GL_SHADER_STORAGE_BARRIER_BIT)", <<>>)>>]

CrDispatchParticleUpdate ==
    /\ pc = "compute_renderer"
    /\ cr.dispatch_count < MaxDispatches
    /\ \E n \in DispatchCounts, name \in Names :
         LET d == dispatch_particle_update(cr, sm_current, bm_buffers, n, name)
         IN  /\ cr' = d.cr
             /\ sm_current' = d.current
             /\ sm_used' = IF d.current # sm_current THEN d.current ELSE sm_used
             /\ crOp' = CrOpRec("dispatch_particle_update",
                                DispatchArg(cr, bm_buffers, n, name), 0, "none",
                                FALSE, d.err, d.calls)
    /\ UNCHANGED <<engineVars, glVars, ghostVars, bmVars, sm_programs, opVars>>
    /\ UNCHANGED <<rayVars, hostVars, sceneVars, keyVars, glSyncs>>

\* ComputeRenderer.load_particle_update_shader: the program is loaded under
\* the name "particle_update"; an exception of the load is raised again
CrLoadParticleUpdateShader ==
    /\ pc = "compute_renderer"
    /\ glNext + 1 <= MaxShaderHandles
    /\ \E exists, compileOk, linkOk \in BOOLEAN :
         IF ~exists
         THEN /\ crOp' = CrOpRec("load_particle_update_shader", 0, 0, "none",
                                 FALSE, "FileNotFoundError", <<>>)
              /\ UNCHANGED <<glPrograms, glLinked, glNext, sm_programs, cr>>
         ELSE LET r == load_compute_shader(glNext, compileOk, linkOk)
              IN  /\ glPrograms' = glPrograms \cup r.programs
                  /\ glLinked' = glLinked \cup r.programs
                  /\ glNext' = glNext + r.used
                  /\ sm_programs' = IF r.prog # 0
                                     THEN Put(sm_programs, "particle_update", r.prog)
                                     ELSE sm_programs
                  /\ cr' = IF r.prog # 0
                            THEN [cr EXCEPT !.particle_update_program = r.prog]
                            ELSE cr
                  /\ crOp' = CrOpRec("load_particle_update_shader", 0, 0, "none",
                                     FALSE, r.err, <<>>)
    /\ UNCHANGED <<engineVars, ghostVars, bmVars, sm_current, sm_used, opVars>>
    /\ UNCHANGED <<glShaders, glBuffers, glVaos, glTextures>>
    /\ UNCHANGED <<rayVars, hostVars, sceneVars, keyVars, glSyncs>>

\* a ComputeRenderer constructed over a fresh ShaderManager and a
\* BufferManager that holds no buffer or the buffer "a"
InitCompute ==
    /\ pc = "compute_renderer"
    /\ err = NoErr
    /\ glfwInit = FALSE /\ window = FALSE /\ closeFlag = FALSE
    /\ engine = EngineInit
    /\ camera = CameraInit
    /\ cursor = <<0, 0>>
    /\ texSize = <<0, 0>> /\ groups = <<0, 0, 0>> /\ uboMoving = FALSE /\ cmds = <<>>
    /\ glShaders = {} /\ glPrograms = {} /\ glLinked = {}
    /\ glVaos = {} /\ glTextures = {}
    /\ heldAtUpdate = FALSE /\ sawDelta = FALSE
    /\ \E held \in BOOLEAN :
         /\ bm_buffers = (IF held THEN Put(<<>>, "a", 1) ELSE <<>>)
         /\ bm_sizes = (IF held THEN Put(<<>>, "a", DefaultBufferSize) ELSE <<>>)
         /\ glBuffers = (IF held THEN {1} ELSE {})
         /\ glNext = (IF held THEN 2 ELSE 1)
    /\ bm_vaos = <<>>
    /\ sm_programs = <<>> /\ sm_current = None /\ sm_used = 0
    /\ op = OpRec("none", NoName, 0, 0) /\ opErr = "none" /\ opCalls = <<>> /\ opLeft = {}
    /\ RayIdle /\ SceneIdle /\ KeysIdle /\ HostIdle
    /\ cr = CrInit
    /\ glSyncs = {}
    /\ crOp = CrOpRec("none", 0, 0, "none", FALSE, "none", <<>>)

NextCompute ==
    \/ CrLoadParticleUpdateShader \/ CrDispatchParticleUpdate
    \/ CrSynchronizeGpu \/ CrSetLocalWorkGroupSize \/ CrResetPerformanceStats
    \/ CrCleanup

SpecCompute == InitCompute /\ [][NextCompute]_vars

----------------------------------------------------------------------------
(* Claims about the frame loop and the camera *)

\* a compute dispatch has been issued in the current frame and no event has
\* been handled since
Dispatched == pc \in {"present", "swap"}

\* C1: in every frame rendered while the left (or middle) mouse button is
\* held the dispatch is 7x5x1 work groups, and in every frame rendered while
\* it is released the dispatch is 13x10x1, with no mouse-move or scroll event
\* needed for the switch.
C1_DispatchFollowsButton ==
    Dispatched =>
        groups = IF camera.dragging THEN <<7, 5, 1>> ELSE <<13, 10, 1>>

Reallocs(q) == Cardinality({i \in DOMAIN q : q[i] = "glTexImage2D"})

\* C3: dispatch_compute issues glTexImage2D only in a frame whose target size
\* differs from the texture's current size (and then once), the texture has
\* the target size afterwards, and no other step of the loop reallocates.
C3_ReallocOnlyOnSizeChange ==
    [][ /\ pc = "dispatch" =>
             /\ Reallocs(cmds') = IF texSize # TargetSize(camera) THEN 1 ELSE 0
             /\ texSize' = TargetSize(camera)
        /\ pc \in (FramePcs \cup {"loop"}) \ {"dispatch"} =>
             /\ Reallocs(cmds') <= Reallocs(cmds)
             /\ texSize' = texSize ]_vars

\* the frame after an idle->moving transition has reallocated the texture
C3_Witness ==
    /\ pc = "present"
    /\ Reallocs(cmds) = 1
    /\ texSize = <<COMPUTE_DYNAMIC_W, COMPUTE_DYNAMIC_H>>

Pos(c) == CHOOSE i \in DOMAIN cmds : cmds[i] = c
Count(c) == Cardinality({i \in DOMAIN cmds : cmds[i] = c})
Uploads == {"upload_camera", "upload_disk", "upload_objects"}

\* the command b is issued only after the command a of the same frame
Before(a, b) == Count(b) > 0 => (Count(a) > 0 /\ Pos(a) < Pos(b))

\* C4: within every frame the order is grid draw, the three uniform uploads,
\* glDispatchCompute, glMemoryBarrier, the present draw, swap_buffers; each
\* is issued once per frame.
C4_FrameOrder ==
    /\ \A u \in Uploads : Before("glDrawElements", u) /\ Before(u, "glDispatchCompute")
    /\ Before("glDispatchCompute", "glMemoryBarrier")
    /\ Before("glMemoryBarrier", "glDrawArrays")
    /\ Before("glDrawArrays", "swap_buffers")
    /\ \A c \in Uploads \cup {"glDrawElements", "glDispatchCompute", "glMemoryBarrier",
                              "glDrawArrays", "swap_buffers"} :
          /\ Count(c) <= 1
          /\ pc = "poll" => Count(c) = 1

\* a frame has been rendered completely
C4_Witness == pc = "poll" /\ Count("swap_buffers") = 1 /\ Count("glTexImage2D") = 1

\* C5: 0.01 <= elevation <= pi - 0.01 (so 0 < elevation < pi),
\* minRadius <= radius <= maxRadius, and the target is the origin.
C5_CameraInRange ==
    /\ camera.elevation >= ElevEps /\ camera.elevation <= Pi - ElevEps
    /\ camera.elevation > 0 /\ camera.elevation < Pi
    /\ camera.radius >= MinRadius /\ camera.radius <= MaxRadius
    /\ camera.target = <<0, 0, 0>>

\* the drag and the zoom have both run into their clamps
C5_Witness ==
    /\ camera.elevation = Pi - ElevEps
    /\ camera.radius = MinRadius
    /\ camera.azimuth # 0

----------------------------------------------------------------------------
(* Claims about Engine construction *)

\* C9: no state in which the constructor has raised while the window it
\* created is still alive.
C9_NoRaiseWithLiveWindow == ~(pc = "raised" /\ window)

\* C10: no program whose link failed is stored in the Engine (and used by
\* the frame loop).
C10_StoredProgramsLinked ==
    \A p \in {engine.present_prog, engine.grid_prog, engine.compute_prog} \ {0} :
        p \in glLinked

----------------------------------------------------------------------------
(* Claims about the resource managers *)

Called(c) == \E i \in DOMAIN opCalls : opCalls[i] = c

\* an update_particle_buffer call on a registered buffer has returned
Updated == op.name = "update_particle_buffer" /\ opErr = "none"

\* what C6 and its amendment share: n <= c uploads with glBufferSubData (when
\* there is anything to upload), never glBufferData, and keeps the capacity;
\* n > c reallocates with glBufferData
UpdateUploads ==
    IF op.n <= op.cap
    THEN /\ ~Called("glBufferData")
         /\ op.n > 0 => Called("glBufferSubData")
         /\ bm_sizes[op.key] = op.cap
    ELSE Called("glBufferData") /\ ~Called("glBufferSubData")

\* ceil(1.5 * c)
CeilGrowth(c) == (3 * c + 1) \div 2

C7_TeardownReleasesAll ==
    (op.name = "cleanup" \/ pc = "done") =>
        /\ glBuffers = {} /\ glVaos = {} /\ glPrograms = {}
        /\ glShaders = {} /\ glTextures = {}

\* C8: when a load raises ShaderCompilationError, every shader and program
\* object created during the call has been deleted and no name has been
\* registered.
C8_FailedLoadLeavesNothing ==
    [][opErr' = "ShaderCompilationError" =>
          /\ opLeft' = {}
          /\ glShaders' = glShaders /\ glPrograms' = glPrograms
          /\ sm_programs' = sm_programs]_vars

\* the name of the call o is not registered in the registry the call reads
Unregistered(o) ==
    IF o.name \in {"update_particle_buffer", "bind_buffer", "get_buffer_id",
                   "delete_buffer"}
    THEN o.key \notin DOMAIN bm_buffers
    ELSE IF o.name = "get_buffer_size"
    THEN o.key \notin DOMAIN bm_sizes
    ELSE IF o.name \in {"bind_vertex_array", "get_vao_id", "delete_vao"}
    THEN o.key \notin DOMAIN bm_vaos
    ELSE IF o.name = "setup_particle_vertex_attributes"
    THEN o.key \notin DOMAIN bm_vaos \/ o.key2 \notin DOMAIN bm_buffers
    ELSE IF o.name \in {"use_program_by_name", "get_program_id", "delete_program"}
    THEN o.key \notin DOMAIN sm_programs
    ELSE FALSE

\* C11: a manager operation called with a name that is not registered raises
\* KeyError without issuing a GL call and leaves the registries and the GL
\* objects as they were; a delete of the name just deleted raises KeyError.
C11_UnknownNameRaises ==
    [][/\ Unregistered(op') =>
            /\ opErr' = "KeyError"
            /\ opCalls' = <<>>
            /\ UNCHANGED <<bmVars, smVars, glVars>>
       /\ \A d \in {"delete_buffer", "delete_vao", "delete_program"} :
            (op.name = d /\ opErr = "none" /\ op'.name = d /\ op'.key = op.key)
                => opErr' = "KeyError"]_vars

\* delete_buffer of "a" raised KeyError while "b" was registered, and a
\* buffer had been created before
C11_Witness ==
    /\ op.name = "delete_buffer" /\ op.key = "a" /\ opErr = "KeyError"
    /\ DOMAIN bm_buffers = {"b"}
    /\ bm_buffers["b"] = 2

----------------------------------------------------------------------------
(* Claims about the CPU geodesic integrator *)

\* s + h*k on six-vectors
Axpy(s, h, k) == [i \in 1..6 |-> Add(s[i], Mul(h, k[i]))]

\* the classical RK4 step from the six-vector s
RK4(s, E, rs, dlam) ==
    LET half == Div(dlam, F(Two))
        k1 == rhs(s, E, rs).k
        k2 == rhs(Axpy(s, half, k1), E, rs).k
        k3 == rhs(Axpy(s, half, k2), E, rs).k
        k4 == rhs(Axpy(s, dlam, k3), E, rs).k
    IN  Combine(s, dlam, k1, k2, k3, k4)

\* a call of step on a ray that is not captured has returned
Stepped ==
    /\ rayCalls' = rayCalls + 1
    /\ rayErr' = "none"
    /\ ~Le(ray.r, ray.rs)

\* C12: a step of a ray that is not captured is the classical RK4 step: k2
\* and k3 are taken at state + (dlam/2)*k, k4 at state + dlam*k3, and the new
\* state is state + (dlam/6)*(k1 + 2*k2 + 2*k3 + k4).
C12_StepIsRK4 ==
    [][Stepped => State6(ray') = RK4(State6(ray), ray.E, ray.rs, rayIn.dlam)]_vars

\* C13: step never changes E and L, and a step of a captured ray (r <= rs)
\* changes no field of the ray.
C13_CaptureAbsorbing ==
    [][rayCalls' = rayCalls + 1 =>
          /\ ray'.E = ray.E /\ ray'.L = ray.L
          /\ Le(ray.r, ray.rs) => ray' = ray]_vars

\* the ray sent inward from the camera distance with the large step was
\* captured at its sixth step and has been stepped twice more
C13_Witness ==
    /\ rayPc = "built" /\ rayCalls = MaxSteps
    /\ rayIn.pos[1] = F(CamZ) /\ rayIn.dir[1] = F(0 - One)
    /\ rayIn.dlam = F(DlamLarge)
    /\ Le(ray.r, ray.rs)
    /\ ray.dr.v # 0

\* C14: the run of the __main__ block ends with the ray captured: it does
\* not end by an exception, by escape or by the end of the range.
C14_MainEndsCaptured ==
    (rayIn.driver = "main" /\ rayPc \in {"ended", "raised"}) =>
        (rayPc = "ended" /\ Le(ray.r, ray.rs))

\* C15: neither the constructor nor a step of a ray that starts outside the
\* horizon raises.
C15_NoRayException == rayErr = "none"

----------------------------------------------------------------------------
(* Claims about the curvature grid and the objects block *)

RECURSIVE LiftSum(_, _, _, _)
LiftSum(objs, n, worldX, worldZ) ==
    IF n = 0 THEN 0
    ELSE LiftSum(objs, n - 1, worldX, worldZ) + Lift(objs[n], worldX, worldZ)

\* number of the vertex in column x of row z, counted from 0
VertexAt(x, z) == z * (gridSize + 1) + x

VertX(i) == gridVerts[3 * i + 1]
VertY(i) == gridVerts[3 * i + 2]
VertZ(i) == gridVerts[3 * i + 3]

\* C16: for every grid vertex and any number of objects, the y that
\* generate_grid produces is the sum of the objects' contributions minus 3e10,
\* the 3e10 taken off exactly once.
C16_DropOnce ==
    gridVerts # <<>> =>
        \A x \in 0..gridSize, z \in 0..gridSize :
            VertY(VertexAt(x, z))
                = Float32(LiftSum(objects, Len(objects), World(x), World(z))
                          - GridDrop)

\* C17: a call of generate_grid with N = 25 produces (N+1)^2 vertices and
\* 4*N^2 line indices, every index is in 0..(N+1)^2 - 1, and each consecutive
\* pair of indices joins two vertices one grid step apart along x or along z.
C17_GridShape ==
    gridVerts # <<>> =>
        /\ Len(gridVerts) = 3 * (gridSize + 1) * (gridSize + 1)
        /\ Len(gridIndices) = 4 * gridSize * gridSize
        /\ \A k \in DOMAIN gridIndices :
               gridIndices[k] \in 0..((gridSize + 1) * (gridSize + 1) - 1)
        /\ \A p \in 1..(2 * gridSize * gridSize) :
               LET a == gridIndices[2 * p - 1]
                   b == gridIndices[2 * p]
               IN  Abs(VertX(a) - VertX(b)) + Abs(VertZ(a) - VertZ(b)) = spacing

C17_Witness ==
    /\ objects = <<Sun, SagAObj>>
    /\ pc = "upload_objects"
    /\ Len(gridIndices) = 4 * gridSize * gridSize
    /\ engine.grid_ebo # 0

\* the byte at offset off of the block, -1 beyond its end
ByteAt(off) == IF off + 1 \in DOMAIN objBlob THEN objBlob[off + 1] ELSE 0 - 1

BytesAt(off, n) == [k \in 1..n |-> ByteAt(off + k - 1)]

\* C18: the bytes written to the objects block are a 32-bit integer count =
\* min(number of objects, 16) at offset 0, 12 bytes of padding, then
\* posRadius[16], color[16] with alpha 1 for the used entries, and mass[16],
\* every entry of the three arrays starting at a multiple of 16 bytes.
C18_ObjectsBlockLayout ==
    objBlob # <<>> =>
        LET n == UploadCount(objects)
            vec4 == 4 * FloatBytes
            posRadius == vec4
            color == posRadius + MAX_OBJECTS * vec4
            mass == color + MAX_OBJECTS * vec4
        IN  /\ BytesAt(0, 4) = LittleEndian(n)
            /\ \A i \in 1..n :
                   /\ BytesAt(posRadius + (i - 1) * vec4, vec4)
                          = ToBytes(<<objects[i][1], objects[i][2],
                                      objects[i][3], objects[i][4]>>)
                   /\ BytesAt(color + (i - 1) * vec4, vec4)
                          = ToBytes(<<objects[i][5], objects[i][6],
                                      objects[i][7], 1>>)
                   /\ BytesAt(mass + (i - 1) * vec4, FloatBytes)
                          = ToBytes(<<objects[i][8]>>)

----------------------------------------------------------------------------
(* Claims about the keyboard *)

\* the key event the latest step delivered is a press of ESC
EscPressed ==
    /\ Len(keys') = Len(keys) + 1
    /\ keys'[Len(keys')] = <<KEY_ESCAPE, PRESS>>

\* C19: a press of ESC sets the window close flag, and the loop, reading the
\* flag at its top, leaves without starting another frame.
C19_EscCloses ==
    [][/\ EscPressed => closeFlag'
       /\ (pc = "loop" /\ closeFlag) => pc' = "shutdown"]_vars

----------------------------------------------------------------------------
(* Claims about the ComputeRenderer *)

\* C20: synchronize_gpu does not raise on a timeout; it returns True exactly
\* when the wait result is ALREADY_SIGNALED or CONDITION_SATISFIED and False
\* otherwise (timeout, wait failure, no fence created); whenever a fence was
\* created it has been deleted and _sync_fence is None on return.
C20_SyncReturnsAndFrees ==
    crOp.name = "synchronize_gpu" =>
        /\ crOp.err = "none"
        /\ crOp.ret = (/\ crOp.fence # 0
                       /\ crOp.result \in {"GL_ALREADY_SIGNALED",
                                           "GL_CONDITION_SATISFIED"})
        /\ crOp.fence # 0 => (crOp.fence \notin glSyncs /\ cr.sync_fence = 0)

C20_Witness ==
    /\ crOp.name = "synchronize_gpu"
    /\ crOp.fence # 0
    /\ crOp.result = "GL_TIMEOUT_EXPIRED"
    /\ crOp.ret = FALSE
    /\ crOp.calls = <<"glFenceSync", "glClientWaitSync", "glDeleteSync">>

----------------------------------------------------------------------------
(* Claims about the bound program *)

\* the program GL has bound when the manager tracks c
Bound(c) == IF c = None THEN 0 ELSE c

\* C22: the tracked _current_program is the argument of the latest
\* glUseProgram the manager issued (None standing for 0); use_program(p)
\* issues glUseProgram exactly when p is not the program bound; deleting the
\* bound program issues glUseProgram(0) and removes the name.
C22_TrackedIsBound ==
    [][/\ Bound(sm_current') = sm_used'
       /\ op'.name = "use_program" =>
              (("glUseProgram" \in Range(opCalls')) <=> (op'.n # sm_used))
       /\ (/\ op'.name = "delete_program"
           /\ opErr' = "none"
           /\ sm_programs[op'.key] = sm_used) =>
              /\ "glUseProgram" \in Range(opCalls')
              /\ sm_used' = 0
              /\ op'.key \notin DOMAIN sm_programs']_vars


----------------------------------------------------------------------------
(* physics/vector3.py, physics/particle.py: Vector3 and Particle.  The
   components are whole numbers, small enough for the float arithmetic of the
   code to be exact on them; a quotient is rounded toward zero. *)

\* a / b rounded toward zero
Quot(a, b) == IF (a < 0) = (b < 0) THEN Abs(a) \div Abs(b)
              ELSE 0 - (Abs(a) \div Abs(b))

\* Body with its name bound to the value v, as a local variable of the code is
With(v, Body(_)) == Body(v)

Vector3(x, y, z) == <<x, y, z>>

\* Vector3.zero()
zero == Vector3(0, 0, 0)

\* Vector3.__add__, __sub__, __mul__, __truediv__ (the scalar is not 0)
VAdd(a, b) == Vector3(a[1] + b[1], a[2] + b[2], a[3] + b[3])
VSub(a, b) == Vector3(a[1] - b[1], a[2] - b[2], a[3] - b[3])
VMul(a, k) == Vector3(a[1] * k, a[2] * k, a[3] * k)
VDiv(a, k) == Vector3(Quot(a[1], k), Quot(a[2], k), Quot(a[3], k))

\* Particle.__post_init__: the default maximum trail length
DefaultTrailLength == 100

\* Particle(mass, position, velocity, active) after __post_init__
Particle(mass, position, velocity, active) ==
    [mass |-> mass, position |-> position, velocity |-> velocity,
     active |-> active, force_accumulator |-> zero, trail_positions |-> <<>>,
     max_trail_length |-> DefaultTrailLength]

\* a trail that drops its newest entry when it is over its length
add_to_trail_newest(p, position) ==
    LET appended == Append(p.trail_positions, position)
    IN  [p EXCEPT !.trail_positions =
            IF Len(appended) > p.max_trail_length
            THEN SubSeq(appended, 1, Len(appended) - 1) ELSE appended]

\* Particle._add_to_trail: append a copy of the position, then pop(0) once
\* if the trail is over its length
add_to_trail(p, position) ==
    LET appended == Append(p.trail_positions, position)
    IN  [p EXCEPT !.trail_positions =
            IF Len(appended) > p.max_trail_length
            THEN Tail(appended) ELSE appended]

\* Particle.update_position
update_position(p, dt) ==
    IF ~p.active THEN p
    ELSE LET moved == [p EXCEPT !.position =
                                    VAdd(p.position, VMul(p.velocity, dt))]
         IN  add_to_trail(moved, moved.position)

\* Particle.apply_force
apply_force(p, force, dt) ==
    IF ~p.active THEN p
    ELSE [p EXCEPT !.force_accumulator = VAdd(p.force_accumulator, force)]

\* Particle.integrate_forces
integrate_forces(p, dt) ==
    IF ~p.active \/ p.mass <= 0 THEN p
    ELSE LET acceleration == VDiv(p.force_accumulator, p.mass)
         IN  [p EXCEPT !.velocity = VAdd(p.velocity, VMul(acceleration, dt)),
                       !.force_accumulator = zero]

\* Particle.set_active
set_active(p, active) ==
    IF active THEN [p EXCEPT !.active = TRUE]
    ELSE [p EXCEPT !.active = FALSE, !.force_accumulator = zero]

\* Particle.set_max_trail_length: pop(0) while the trail is over the length
set_max_trail_length(p, length) ==
    LET limit == Max(0, length)
        n == Len(p.trail_positions)
    IN  [p EXCEPT !.max_trail_length = limit,
                  !.trail_positions =
                      IF n > limit THEN SubSeq(p.trail_positions, n - limit + 1, n)
                      ELSE p.trail_positions]

\* Particle.clear_trail
clear_trail(p) == [p EXCEPT !.trail_positions = <<>>]

\* Particle.copy: a new Particle, then the trail, the length and the forces
copy(p) ==
    [Particle(p.mass, p.position, p.velocity, p.active) EXCEPT
        !.trail_positions = p.trail_positions,
        !.max_trail_length = p.max_trail_length,
        !.force_accumulator = p.force_accumulator]


----------------------------------------------------------------------------
(* physics/black_hole.py, physics/integrator.py: BlackHole and
   PhysicsIntegrator, in units that make G, c and the Schwarzschild radius of
   the model's black hole whole numbers.  Where the code multiplies by a
   quotient, the product is taken first and the quotient rounded toward
   zero.  A call that raises is a record with err # "none". *)

\* the gravitational constant and the speed of light
GravConst == 1
LightSpeed == 10

\* PhysicsIntegrator.max_velocity_fraction, in hundredths
DefaultVelocityFraction == 10

\* Vector3.dot, magnitude_squared, magnitude, normalize (of a non-zero vector)
dot(a, b) == a[1] * b[1] + a[2] * b[2] + a[3] * b[3]
magnitude_squared(a) == dot(a, a)
magnitude(a) == ISqrt(magnitude_squared(a))
normalize(a) == VDiv(a, magnitude(a))

BlackHole(mass, position) == [mass |-> mass, position |-> position]

\* BlackHole.get_schwarzschild_radius
get_schwarzschild_radius(bh) ==
    Quot(2 * GravConst * bh.mass, LightSpeed * LightSpeed)

\* BlackHole.calculate_gravitational_force
calculate_gravitational_force(bh, particle_pos, particle_mass) ==
    With(VSub(particle_pos, bh.position), LAMBDA displacement :
    With(magnitude(displacement), LAMBDA distance :
    IF distance = 0 THEN [err |-> "ValueError", v |-> zero]
    ELSE
    With(Quot(GravConst * bh.mass * particle_mass, distance * distance),
         LAMBDA force_magnitude :
    [err |-> "none",
     v |-> VMul(VMul(normalize(displacement), 0 - 1), force_magnitude)])))

\* PhysicsIntegrator.__init__ and set_integration_parameters
PhysicsIntegrator(relativistic, geodesic) ==
    [enable_relativistic_effects |-> relativistic,
     enable_geodesic_calculation |-> geodesic,
     max_velocity_fraction |-> DefaultVelocityFraction]

\* PhysicsIntegrator.calculate_geodesic_acceleration
calculate_geodesic_acceleration(I, position, velocity, bh) ==
    With(VSub(position, bh.position), LAMBDA displacement :
    With(magnitude(displacement), LAMBDA r :
    IF r = 0 THEN zero
    ELSE
    With(get_schwarzschild_radius(bh), LAMBDA rs :
    With(normalize(displacement), LAMBDA r_hat :
    With(VMul(r_hat, 0 - Quot(GravConst * bh.mass, r * r)),
         LAMBDA newtonian_accel :
    IF ~I.enable_relativistic_effects \/ r > 10 * rs THEN newtonian_accel
    ELSE
    With(LightSpeed * LightSpeed, LAMBDA c_squared :
    With(dot(velocity, r_hat), LAMBDA v_radial :
    With(VSub(velocity, VMul(r_hat, v_radial)), LAMBDA v_tangential_vec :
    LET velocity_correction ==
            VDiv(VMul(newtonian_accel, magnitude_squared(velocity)), c_squared)
        radial_correction ==
            VMul(r_hat, Quot(4 * GravConst * bh.mass * v_radial, r * c_squared))
        tangential_correction ==
            IF magnitude(v_tangential_vec) > 0
            THEN VDiv(VMul(v_tangential_vec, 2 * GravConst * bh.mass),
                      r * c_squared)
            ELSE zero
        proximity_correction == VDiv(VMul(newtonian_accel, rs * rs), r * r)
    IN  VAdd(VAdd(VAdd(VAdd(newtonian_accel, velocity_correction),
                       radial_correction),
                  tangential_correction),
             proximity_correction)))))))))

\* the acceleration both _calculate_derivative and the Euler and Verlet loops
\* compute: the geodesic one, or the Newtonian force over the mass
acceleration_at(I, position, velocity, bh, mass) ==
    IF I.enable_geodesic_calculation
    THEN [err |-> "none",
          v |-> calculate_geodesic_acceleration(I, position, velocity, bh)]
    ELSE With(calculate_gravitational_force(bh, position, mass),
              LAMBDA gravitational_force :
         IF gravitational_force.err # "none" THEN gravitational_force
         ELSE IF mass = 0 THEN [err |-> "ValueError", v |-> zero]
         ELSE [err |-> "none", v |-> VDiv(gravitational_force.v, mass)])

\* IntegrationState, its __add__, and its __mul__ by the scalar num / den
IntegrationState(position, velocity) ==
    [position |-> position, velocity |-> velocity]
SAdd(a, b) == IntegrationState(VAdd(a.position, b.position),
                               VAdd(a.velocity, b.velocity))
SMul(a, num, den) == IntegrationState(VDiv(VMul(a.position, num), den),
                                      VDiv(VMul(a.velocity, num), den))

\* PhysicsIntegrator._calculate_derivative
calculate_derivative(I, state, bh, mass) ==
    With(acceleration_at(I, state.position, state.velocity, bh, mass),
         LAMBDA acceleration :
    [err |-> acceleration.err,
     d |-> IntegrationState(state.velocity, acceleration.v)])

\* PhysicsIntegrator._limit_velocity
limit_velocity(I, velocity) ==
    With(magnitude(velocity), LAMBDA speed :
    With(Quot(I.max_velocity_fraction * LightSpeed, 100), LAMBDA max_speed :
    IF speed > max_speed THEN VMul(normalize(velocity), max_speed)
    ELSE velocity))

\* PhysicsIntegrator.apply_relativistic_effects; the time dilation factor is
\* in hundredths, and gamma is computed and dropped
apply_relativistic_effects(I, p, bh) ==
    IF ~p.active THEN p
    ELSE
    With(magnitude(VSub(p.position, bh.position)), LAMBDA r :
    With(get_schwarzschild_radius(bh), LAMBDA rs :
    With(limit_velocity(I, p.velocity), LAMBDA limited :
    IF r > rs
    THEN With(ISqrt(Quot(10000 * (r - rs), r)), LAMBDA time_dilation_factor :
         IF time_dilation_factor > 10
         THEN [p EXCEPT !.velocity =
                            VDiv(VMul(limited, time_dilation_factor), 100)]
         ELSE [p EXCEPT !.velocity = limited])
    ELSE [p EXCEPT !.velocity = limited])))

\* the first error among the results rs, or "none"
FirstErr(rs) ==
    IF \A i \in DOMAIN rs : rs[i].err = "none" THEN "none"
    ELSE rs[CHOOSE i \in DOMAIN rs :
                /\ rs[i].err # "none"
                /\ \A j \in 1..(i - 1) : rs[j].err = "none"].err

\* the end of a loop turn that moved the particle to `updated`
relativistic_end(I, updated, bh) ==
    [err |-> "none",
     p |-> IF I.enable_relativistic_effects
           THEN apply_relativistic_effects(I, updated, bh)
           ELSE updated]

\* the body of the loop of integrate_rk4 for an active particle
rk4_step(I, p, bh, dt) ==
    With(IntegrationState(p.position, p.velocity), LAMBDA initial_state :
    With(calculate_derivative(I, initial_state, bh, p.mass), LAMBDA k1 :
    IF k1.err # "none" THEN [err |-> k1.err, p |-> p]
    ELSE
    With(SAdd(initial_state, SMul(k1.d, dt, 2)), LAMBDA state_k2 :
    With(calculate_derivative(I, state_k2, bh, p.mass), LAMBDA k2 :
    IF k2.err # "none" THEN [err |-> k2.err, p |-> p]
    ELSE
    With(SAdd(initial_state, SMul(k2.d, dt, 2)), LAMBDA state_k3 :
    With(calculate_derivative(I, state_k3, bh, p.mass), LAMBDA k3 :
    IF k3.err # "none" THEN [err |-> k3.err, p |-> p]
    ELSE
    With(SAdd(initial_state, SMul(k3.d, dt, 1)), LAMBDA state_k4 :
    With(calculate_derivative(I, state_k4, bh, p.mass), LAMBDA k4 :
    IF k4.err # "none" THEN [err |-> k4.err, p |-> p]
    ELSE
    With(SMul(SAdd(SAdd(SAdd(k1.d, SMul(k2.d, 2, 1)), SMul(k3.d, 2, 1)), k4.d),
              1, 6),
         LAMBDA final_derivative :
    With(SAdd(initial_state, SMul(final_derivative, dt, 1)), LAMBDA new_state :
    relativistic_end(I,
        [p EXCEPT !.position = new_state.position,
                  !.velocity = IF I.enable_relativistic_effects
                               THEN limit_velocity(I, new_state.velocity)
                               ELSE new_state.velocity],
        bh)))))))))))

\* the body of the loop of integrate_euler for an active particle
euler_step(I, p, bh, dt) ==
    With(acceleration_at(I, p.position, p.velocity, bh, p.mass),
         LAMBDA acceleration :
    IF acceleration.err # "none" THEN [err |-> acceleration.err, p |-> p]
    ELSE
    With(VAdd(p.velocity, VMul(acceleration.v, dt)), LAMBDA stepped :
    With(IF I.enable_relativistic_effects THEN limit_velocity(I, stepped)
         ELSE stepped,
         LAMBDA velocity :
    relativistic_end(I,
        [p EXCEPT !.velocity = velocity,
                  !.position = VAdd(p.position, VMul(velocity, dt))],
        bh))))

\* the body of the loop of integrate_verlet for an active particle: the
\* position is already stored when the second acceleration is computed
verlet_step(I, p, bh, dt) ==
    With(acceleration_at(I, p.position, p.velocity, bh, p.mass),
         LAMBDA current_accel :
    IF current_accel.err # "none" THEN [err |-> current_accel.err, p |-> p]
    ELSE
    With([p EXCEPT !.position =
             VAdd(VAdd(p.position, VMul(p.velocity, dt)),
                  VDiv(VMul(current_accel.v, dt * dt), 2))],
         LAMBDA moved :
    With(acceleration_at(I, moved.position, p.velocity, bh, p.mass),
         LAMBDA new_accel :
    IF new_accel.err # "none" THEN [err |-> new_accel.err, p |-> moved]
    ELSE
    With(VAdd(p.velocity,
              VDiv(VMul(VAdd(current_accel.v, new_accel.v), dt), 2)),
         LAMBDA stepped :
    IF I.enable_relativistic_effects
    THEN relativistic_end(I, [moved EXCEPT !.velocity = limit_velocity(I, stepped)],
                          bh)
    ELSE [err |-> "none", p |-> [moved EXCEPT !.velocity = stepped]]))))

Methods == {"integrate_rk4", "integrate_euler", "integrate_verlet"}

\* one turn of the loop that integrates every particle, inactive or not
integrate_one_any(method, I, p, bh, dt) ==
    CASE method = "integrate_rk4" -> rk4_step(I, p, bh, dt)
      [] method = "integrate_euler" -> euler_step(I, p, bh, dt)
      [] method = "integrate_verlet" -> verlet_step(I, p, bh, dt)

\* one turn of the loop of integrate_rk4, integrate_euler or
\* integrate_verlet: an inactive particle is skipped
integrate_one(method, I, p, bh, dt) ==
    IF ~p.active THEN [err |-> "none", p |-> p]
    ELSE CASE method = "integrate_rk4" -> rk4_step(I, p, bh, dt)
           [] method = "integrate_euler" -> euler_step(I, p, bh, dt)
           [] method = "integrate_verlet" -> verlet_step(I, p, bh, dt)

\* integrate_rk4 / integrate_euler / integrate_verlet on the list ps: the
\* loop stops at the first particle whose step raises
integrate(method, I, ps, bh, dt) ==
    With([i \in DOMAIN ps |-> integrate_one(method, I, ps[i], bh, dt)],
         LAMBDA each :
    [err |-> FirstErr(each),
     particles |-> [i \in DOMAIN ps |->
                       IF \A j \in 1..(i - 1) : each[j].err = "none"
                       THEN each[i].p ELSE ps[i]]])

----------------------------------------------------------------------------
(* Calls on a Particle and on a PhysicsIntegrator *)

\* positions a trail is asked to keep, and positions recorded in a run
MaxTrail == 2
MaxRecorded == 3

\* calls made in a run that change a velocity or a force accumulator
MaxPhysicsCalls == 2

ParticleMasses == {0, 2}
AxisPoints == {12}
AxisSpeeds == {0 - 1, 7}
Forces == {Vector3(4, 0, 0), Vector3(0 - 6, 0, 0)}
Dts == {1, 2}
TrailLengths == {0 - 1} \cup (0..MaxTrail)

\* the black hole handed to the integrator: r_s is 2
Hole == BlackHole(100, zero)

\* the particle is outside the event horizon, where the numbers of the
\* integration stay within the model's integers
Followed(p) ==
    magnitude(VSub(p.position, Hole.position)) > get_schwarzschild_radius(Hole)

\* the calls that only touch the trail, the position or the active flag
TrailCalls == {"update_position", "set_active", "set_max_trail_length",
               "clear_trail", "copy"}

PhysOpRec(name, i, raised) ==
    [name |-> name, i |-> i, err |-> raised,
     count |-> IF name \in TrailCalls THEN physOp.count ELSE physOp.count + 1]

\* another call that changes a velocity or a force accumulator may be made
Budget == physOp.count < MaxPhysicsCalls

PhysFrame ==
    UNCHANGED <<engineVars, glVars, ghostVars, mgrVars, rayVars, sceneVars,
                keyVars, crVars, inVars>>

PtUpdatePosition(i, dt) ==
    /\ pc = "physics"
    /\ Len(recorded[i].positions) < MaxRecorded
    /\ particles' = [particles EXCEPT ![i] = update_position(particles[i], dt)]
    /\ recorded' = [recorded EXCEPT ![i].positions =
                       IF particles[i].active
                       THEN Append(@, particles'[i].position) ELSE @]
    /\ physOp' = PhysOpRec("update_position", i, "none")
    /\ UNCHANGED integrator
    /\ PhysFrame

PtApplyForce(i, force, dt) ==
    /\ pc = "physics"
    /\ Budget
    /\ particles' = [particles EXCEPT ![i] = apply_force(particles[i], force, dt)]
    /\ physOp' = PhysOpRec("apply_force", i, "none")
    /\ UNCHANGED <<recorded, integrator>>
    /\ PhysFrame

PtIntegrateForces(i, dt) ==
    /\ pc = "physics"
    /\ Budget
    /\ particles' = [particles EXCEPT ![i] = integrate_forces(particles[i], dt)]
    /\ physOp' = PhysOpRec("integrate_forces", i, "none")
    /\ UNCHANGED <<recorded, integrator>>
    /\ PhysFrame

PtSetActive(i, active) ==
    /\ pc = "physics"
    /\ particles' = [particles EXCEPT ![i] = set_active(particles[i], active)]
    /\ physOp' = PhysOpRec("set_active", i, "none")
    /\ UNCHANGED <<recorded, integrator>>
    /\ PhysFrame

PtSetMaxTrailLength(i, length) ==
    /\ pc = "physics"
    /\ particles' = [particles EXCEPT
                        ![i] = set_max_trail_length(particles[i], length)]
    /\ physOp' = PhysOpRec("set_max_trail_length", i, "none")
    /\ UNCHANGED <<recorded, integrator>>
    /\ PhysFrame

PtClearTrail(i) ==
    /\ pc = "physics"
    /\ particles' = [particles EXCEPT ![i] = clear_trail(particles[i])]
    /\ recorded' = [recorded EXCEPT ![i].cleared = Len(recorded[i].positions)]
    /\ physOp' = PhysOpRec("clear_trail", i, "none")
    /\ UNCHANGED integrator
    /\ PhysFrame

\* copy() of the first Particle, made once
PtCopy ==
    /\ pc = "physics"
    /\ Len(particles) = 1
    /\ particles' = Append(particles, copy(particles[1]))
    /\ recorded' = Append(recorded, recorded[1])
    /\ physOp' = PhysOpRec("copy", 1, "none")
    /\ UNCHANGED integrator
    /\ PhysFrame

PiIntegrate(method, dt) ==
    /\ pc = "physics"
    /\ Budget
    /\ \A i \in DOMAIN particles : Followed(particles[i])
    /\ \E done \in {integrate(method, integrator, particles, Hole, dt)} :
           /\ particles' = done.particles
           /\ physOp' = PhysOpRec(method, 0, done.err)
    /\ UNCHANGED <<recorded, integrator>>
    /\ PhysFrame

\* one Particle as constructed, and a PhysicsIntegrator as configured
InitPhysics(masses, points, speeds, actives, flags) ==
    /\ pc = "physics"
    /\ err = NoErr
    /\ glfwInit = FALSE /\ window = FALSE /\ closeFlag = FALSE
    /\ engine = EngineInit
    /\ camera = CameraInit
    /\ cursor = <<0, 0>>
    /\ texSize = <<0, 0>> /\ groups = <<0, 0, 0>> /\ uboMoving = FALSE /\ cmds = <<>>
    /\ glShaders = {} /\ glPrograms = {} /\ glLinked = {} /\ glBuffers = {}
    /\ glVaos = {} /\ glTextures = {} /\ glNext = 1
    /\ heldAtUpdate = FALSE /\ sawDelta = FALSE
    /\ bm_buffers = <<>> /\ bm_sizes = <<>> /\ bm_vaos = <<>>
    /\ sm_programs = <<>> /\ sm_current = None /\ sm_used = 0
    /\ op = OpRec("none", NoName, 0, 0) /\ opErr = "none" /\ opCalls = <<>> /\ opLeft = {}
    /\ RayIdle /\ SceneIdle /\ KeysIdle /\ CrIdle /\ InputIdle
    /\ \E mass \in masses, x \in points, v \in speeds, active \in actives :
         particles = <<Particle(mass, Vector3(x, 0, 0), Vector3(v, 0, 0), active)>>
    /\ recorded = << [positions |-> <<>>, cleared |-> 0] >>
    /\ \E relativistic \in flags, geodesic \in flags :
         integrator = PhysicsIntegrator(relativistic, geodesic)
    /\ physOp = [name |-> "none", i |-> 0, err |-> "none", count |-> 0]

InitTrail == InitPhysics({2}, AxisPoints, AxisSpeeds, {TRUE}, {TRUE})

\* the calls go to the newest Particle: a copy shares nothing with its
\* original
NextTrail ==
    \/ PtUpdatePosition(Len(particles), 1)
    \/ \E length \in TrailLengths : PtSetMaxTrailLength(Len(particles), length)
    \/ PtClearTrail(Len(particles))
    \/ \E active \in BOOLEAN : PtSetActive(Len(particles), active)
    \/ PtCopy

SpecTrail == InitTrail /\ [][NextTrail]_vars

InitParticle ==
    InitPhysics(ParticleMasses, AxisPoints, AxisSpeeds, {TRUE, FALSE}, {TRUE, FALSE})

NextParticle ==
    \/ PtUpdatePosition(1, 1)
    \/ \E force \in Forces : PtApplyForce(1, force, 1)
    \/ PtIntegrateForces(1, 1)
    \/ \E active \in BOOLEAN : PtSetActive(1, active)
    \/ \E method \in Methods, dt \in Dts : PiIntegrate(method, dt)

SpecParticle == InitParticle /\ [][NextParticle]_vars


----------------------------------------------------------------------------
(* Claims about the Particle *)

\* the positions Particle i put on its trail since its latest clear_trail
SinceClear(i) ==
    SubSeq(recorded[i].positions, recorded[i].cleared + 1,
           Len(recorded[i].positions))

\* C23: after update_position, set_max_trail_length, clear_trail and copy,
\* the trail of every Particle is no longer than _max_trail_length and is
\* the latest positions the Particle recorded, oldest first; a full trail
\* that receives a position loses its oldest entry.
C23_TrailWindow ==
    [][\A i \in DOMAIN particles' :
         LET trail == particles'[i].trail_positions
             since == SinceClear(i)'
         IN  /\ Len(trail) <= particles'[i].max_trail_length
             /\ Len(trail) <= Len(since)
             /\ trail = SubSeq(since, Len(since) - Len(trail) + 1, Len(since))
             /\ (/\ physOp'.name = "update_position" /\ physOp'.i = i
                 /\ particles[i].active) =>
                    Len(trail) = Min(Len(particles[i].trail_positions) + 1,
                                     particles[i].max_trail_length)]_vars

\* three positions were recorded on a trail of length two: the first is gone
C23_Witness ==
    /\ physOp.name = "update_position"
    /\ particles[physOp.i].max_trail_length = MaxTrail
    /\ Len(particles[physOp.i].trail_positions) = MaxTrail
    /\ Len(SinceClear(physOp.i)) > MaxTrail


\* C24: a call of update_position, apply_force, integrate_forces,
\* integrate_rk4, integrate_euler or integrate_verlet leaves the position,
\* the velocity, the force accumulator and the trail of an inactive Particle
\* as they were; set_active(False) leaves the force accumulator at zero.
C24_InactiveFrozen ==
    [][/\ \A i \in DOMAIN particles :
            (/\ ~particles[i].active
             /\ physOp'.name \in {"update_position", "apply_force",
                                  "integrate_forces"} \cup Methods) =>
                /\ particles'[i].position = particles[i].position
                /\ particles'[i].velocity = particles[i].velocity
                /\ particles'[i].force_accumulator = particles[i].force_accumulator
                /\ particles'[i].trail_positions = particles[i].trail_positions
       /\ (physOp'.name = "set_active" /\ ~particles'[physOp'.i].active) =>
              particles'[physOp'.i].force_accumulator = zero]_vars

\* an integration ran on a Particle that had moved and was then deactivated
C24_Witness ==
    /\ physOp.name = "integrate_rk4"
    /\ physOp.err = "none"
    /\ ~particles[1].active
    /\ Len(particles[1].trail_positions) > 0


----------------------------------------------------------------------------
(* Claims about the grid buffers *)

\* the GL commands the step appended to the frame's commands
Issued == SubSeq(cmds', Len(cmds) + 1, Len(cmds'))

\* C25: every generate_grid call uploads the vertex buffer, only the first
\* one uploads the index buffer, and the grid's VAO, VBO and EBO handles are
\* generated on the first call alone.
C25_IndexUploadedOnce ==
    [][(pc = "grid" /\ pc' = "draw_grid") =>
          /\ "glBufferData(grid_vbo)" \in Range(Issued)
          /\ ("glBufferData(grid_ebo)" \in Range(Issued)) <=> (engine.grid_vao = 0)
          /\ engine.grid_vao # 0 =>
                 /\ engine'.grid_vao = engine.grid_vao
                 /\ engine'.grid_vbo = engine.grid_vbo
                 /\ engine'.grid_ebo = engine.grid_ebo
                 /\ glNext' = glNext]_vars


----------------------------------------------------------------------------
(* Claims about the loop of the CPU integrator *)

\* the test of the break
Breaks(q) == Gt(q.r, F(REscape)) \/ Le(q.r, rayIn.rs)

LoopOver == rayPc \in {"ended", "raised"}

\* the calls of step the block can still make, and one for the constructor
Remaining == (StepBudget - rayCalls) + (IF rayPc = "new" THEN 1 ELSE 0)

----------------------------------------------------------------------------
(* Claims about the moving flag of the camera block *)

\* C27: in every frame the moving slot uploaded in the camera block equals
\* the camera.moving that dispatch_compute used to choose the target size:
\* once a frame has dispatched, the slot is set exactly when the texture has
\* the dynamic size.
C27_MovingSlotMatchesSize ==
    pc = "present" =>
        (uboMoving <=> texSize = <<COMPUTE_DYNAMIC_W, COMPUTE_DYNAMIC_H>>)


----------------------------------------------------------------------------
(* Claims about the capacities and the failed creations of BufferManager *)

\* the step is a call of create_particle_buffer or update_particle_buffer
Uploading == op'.name \in {"create_particle_buffer", "update_particle_buffer"}

\* the call of the step uploaded to the buffer its name has afterwards: a
\* create_particle_buffer that returned, or an update_particle_buffer that
\* got as far as glGetError
Uploaded ==
    \/ op'.name = "create_particle_buffer" /\ opErr' = "none"
    \/ /\ op'.name = "update_particle_buffer"
       /\ opErr' \in {"none", "BufferAllocationError"}

\* C28: over create_particle_buffer and update_particle_buffer calls the
\* capacity recorded for a name never decreases, it is at least the particle
\* count of the latest upload, and an update_particle_buffer that raises
\* BufferAllocationError leaves it as it was.
C28_CapacityMonotone ==
    [][Uploading =>
          /\ \A name \in DOMAIN bm_sizes \cap DOMAIN bm_sizes' :
                 bm_sizes'[name] >= bm_sizes[name]
          /\ (Uploaded /\ op'.key \in DOMAIN bm_sizes') =>
                 bm_sizes'[op'.key] >= op'.n
          /\ (op'.name = "update_particle_buffer"
                /\ opErr' = "BufferAllocationError") => bm_sizes' = bm_sizes]_vars

\* how often the call c is in the sequence q
Times(q, c) == Cardinality({i \in DOMAIN q : q[i] = c})

\* C29: a create_particle_buffer that fails after its handle was generated
\* issues glDeleteBuffers exactly once, registers no name and raises.
C29_DeletedOnce ==
    [][(/\ op'.name = "create_particle_buffer"
        /\ opErr' # "none"
        /\ Called("glBindBuffer")') =>
          /\ Times(opCalls', "glDeleteBuffers") = 1
          /\ bm_buffers' = bm_buffers /\ bm_sizes' = bm_sizes
          /\ opErr' \in {"BufferAllocationError", "GLError"}]_vars


----------------------------------------------------------------------------
(* InputHandler (display/input_handler.py)                                 *)
(*                                                                         *)
(* Angles are in units of 0.001 rad, lengths in units of 0.001, times in   *)
(* milliseconds and cursor positions in pixels.                            *)

KEY_W == 87
KEY_S == 83
KEY_A == 65
KEY_D == 68
KEY_Q == 81
KEY_E == 69
CameraZ == 5000          \* position_z: float = 5.0
MouseSensitivity == 5    \* 0.005
MovementSpeed == 2       \* 2.0
PitchLimit == 1471       \* math.pi/2 - 0.1

(* Bounds of the input runs *)
MaxUpdates == 3
MaxEvents == 4
FrameDt == 16
CursorPoints == {<<400, 300>>, <<450, 250>>, <<800, 700>>}
MoveKeys == {KEY_W, KEY_E}

CameraState ==
    [position_x |-> 0, position_y |-> 0, position_z |-> CameraZ,
     rotation_x |-> 0, rotation_y |-> 0, zoom |-> 1000]

\* InputHandler(window_handle): mouse_initialized is whether the attribute
\* _mouse_initialized exists
InputHandler(window_handle) ==
    [window |-> window_handle, camera_state |-> CameraState,
     keys_pressed |-> {}, mouse_buttons_pressed |-> {},
     last_mouse_x |-> 0, last_mouse_y |-> 0, mouse_initialized |-> FALSE,
     camera_enabled |-> TRUE, invert_y |-> FALSE]

process_keyboard(h, key, action) ==
    IF action = PRESS
    THEN [h EXCEPT !.keys_pressed = @ \cup {key}]
    ELSE IF action = RELEASE
    THEN [h EXCEPT !.keys_pressed = @ \ {key}]
    ELSE h

process_mouse(h, button, action) ==
    IF action = PRESS
    THEN [h EXCEPT !.mouse_buttons_pressed = @ \cup {button}]
    ELSE IF action = RELEASE
    THEN [h EXCEPT !.mouse_buttons_pressed = @ \ {button}]
    ELSE h

get_mouse_position(h, at) == IF ~h.window THEN <<0, 0>> ELSE at

set_camera_enabled(h, enabled) == [h EXCEPT !.camera_enabled = enabled]

set_invert_y(h, invert) == [h EXCEPT !.invert_y = invert]

\* the movement controls of update_camera_controls
move_camera(h, dt) ==
    LET d == MovementSpeed * dt
        on(key) == IF key \in h.keys_pressed THEN d ELSE 0
    IN  [h EXCEPT !.camera_state.position_z = @ - on(KEY_W) + on(KEY_S),
                  !.camera_state.position_x = @ - on(KEY_A) + on(KEY_D),
                  !.camera_state.position_y = @ - on(KEY_Q) + on(KEY_E)]

\* the mouse look of update_camera_controls with the cursor at `at`
mouse_look(h, at) ==
    IF MOUSE_BUTTON_RIGHT \in h.mouse_buttons_pressed
    THEN LET mouse == get_mouse_position(h, at)
             delta_x == mouse[1] - h.last_mouse_x
             dy == mouse[2] - h.last_mouse_y
             delta_y == IF h.invert_y THEN 0 - dy ELSE dy
             turned ==
                 IF h.mouse_initialized
                 THEN [h EXCEPT
                         !.camera_state.rotation_y = @ + delta_x * MouseSensitivity,
                         !.camera_state.rotation_x =
                             Max(0 - PitchLimit,
                                 Min(PitchLimit, @ + delta_y * MouseSensitivity))]
                 ELSE [h EXCEPT !.mouse_initialized = TRUE]
         IN  [turned EXCEPT !.last_mouse_x = mouse[1], !.last_mouse_y = mouse[2]]
    ELSE [h EXCEPT !.mouse_initialized = FALSE]

\* update_camera_controls(dt) with the cursor at `at`
update_camera_controls(h, dt, at) ==
    IF ~h.camera_enabled THEN h ELSE mouse_look(move_camera(h, dt), at)

\* which branch of the mouse look a call takes
LookOf(h) ==
    IF ~h.camera_enabled THEN "off"
    ELSE IF MOUSE_BUTTON_RIGHT \notin h.mouse_buttons_pressed THEN "reset"
    ELSE IF h.mouse_initialized THEN "delta"
    ELSE "init"

\* the latest call and what is remembered of the presses: fresh is whether
\* the right button was pressed since the latest update_camera_controls, and
\* current whether the recorded cursor position was recorded during the
\* press that is on
IhOpRec(name, look, fresh, current, updates, events) ==
    [name |-> name, look |-> look, fresh |-> fresh, current |-> current,
     updates |-> updates, events |-> events]

IhIdle == UNCHANGED <<engineVars, glVars, ghostVars, mgrVars>>
              /\ UNCHANGED <<rayVars, sceneVars, keyVars, crVars, physVars>>

\* glfw delivers a button event: presses and releases of a button alternate
IhProcessMouse ==
    /\ pc = "input"
    /\ ihOp.events < MaxEvents
    /\ \E button \in {MOUSE_BUTTON_LEFT, MOUSE_BUTTON_RIGHT} :
         LET action == IF button \in ih.mouse_buttons_pressed THEN RELEASE ELSE PRESS
             right == button = MOUSE_BUTTON_RIGHT
         IN  /\ ih' = process_mouse(ih, button, action)
             /\ ihOp' = IhOpRec("process_mouse", "none",
                                IF right /\ action = PRESS THEN TRUE ELSE ihOp.fresh,
                                IF right THEN FALSE ELSE ihOp.current,
                                ihOp.updates, ihOp.events + 1)
    /\ UNCHANGED <<pc, ihCursor>>
    /\ IhIdle

\* glfw delivers a key event
IhProcessKeyboard ==
    /\ pc = "input"
    /\ ihOp.events < MaxEvents
    /\ \E key \in MoveKeys :
         LET action == IF key \in ih.keys_pressed THEN RELEASE ELSE PRESS
         IN  ih' = process_keyboard(ih, key, action)
    /\ ihOp' = [ihOp EXCEPT !.name = "process_keyboard", !.look = "none",
                            !.events = @ + 1]
    /\ UNCHANGED <<pc, ihCursor>>
    /\ IhIdle

\* the user moves the cursor
IhCursorMove ==
    /\ pc = "input"
    /\ ihOp.events < MaxEvents
    /\ \E at \in CursorPoints \ {ihCursor} : ihCursor' = at
    /\ ihOp' = [ihOp EXCEPT !.name = "cursor", !.look = "none", !.events = @ + 1]
    /\ UNCHANGED <<pc, ih>>
    /\ IhIdle

IhSetCameraEnabled ==
    /\ pc = "input"
    /\ ihOp.events < MaxEvents
    /\ ih' = set_camera_enabled(ih, ~ih.camera_enabled)
    /\ ihOp' = [ihOp EXCEPT !.name = "set_camera_enabled", !.look = "none",
                            !.events = @ + 1]
    /\ UNCHANGED <<pc, ihCursor>>
    /\ IhIdle

IhSetInvertY ==
    /\ pc = "input"
    /\ ihOp.events < MaxEvents
    /\ ih' = set_invert_y(ih, ~ih.invert_y)
    /\ ihOp' = [ihOp EXCEPT !.name = "set_invert_y", !.look = "none",
                            !.events = @ + 1]
    /\ UNCHANGED <<pc, ihCursor>>
    /\ IhIdle

\* the frame's update_camera_controls(dt)
IhUpdateCameraControls ==
    /\ pc = "input"
    /\ ihOp.updates < MaxUpdates
    /\ ih' = update_camera_controls(ih, FrameDt, ihCursor)
    /\ ihOp' = IhOpRec("update_camera_controls", LookOf(ih), FALSE,
                       IF LookOf(ih) \in {"init", "delta"} THEN TRUE
                       ELSE ihOp.current,
                       ihOp.updates + 1, ihOp.events)
    /\ UNCHANGED <<pc, ihCursor>>
    /\ IhIdle

InitInput ==
    /\ pc = "input"
    /\ EngineOff
    /\ RayIdle /\ SceneIdle /\ KeysIdle /\ CrIdle /\ PhysIdle
    /\ ih = InputHandler(TRUE)
    /\ ihCursor \in CursorPoints
    /\ ihOp = IhOpRec("none", "none", FALSE, FALSE, 0, 0)

NextInput ==
    \/ IhProcessMouse \/ IhProcessKeyboard \/ IhCursorMove
    \/ IhSetCameraEnabled \/ IhSetInvertY \/ IhUpdateCameraControls

SpecInput == InitInput /\ [][NextInput]_vars

----------------------------------------------------------------------------
(* Claims about the mouse look of InputHandler *)

Rotation(h) == <<h.camera_state.rotation_x, h.camera_state.rotation_y>>

\* C30: the first update_camera_controls after a press of the right button
\* applies no rotation, and a rotation is only computed against a cursor
\* position recorded during the press that is on.
C30_FirstUpdateRecordsOnly ==
    [][ihOp'.name = "update_camera_controls" /\ ihOp'.updates = ihOp.updates + 1 =>
          /\ ihOp.fresh => Rotation(ih') = Rotation(ih)
          /\ ihOp'.look = "delta" => ihOp.current]_vars

====
